---------------------------- MODULE Spec2Model ----------------------------
(***************************************************************************)
(* Verification model of the Bondhu music-recommendation pipeline:         *)
(*   core/services/rate_limiter.py      token buckets, Spotify limiter,    *)
(*                                      in-memory cache, per-user limiter  *)
(*   core/services/redis_cache.py       shared cache                       *)
(*   core/services/music_recommendation_service.py  aggregator, pipeline   *)
(*   core/services/recommendation_scorer.py         ranking                *)
(*   core/rl/music_recommendation_rl.py             learning engine        *)
(*   api/routes/agents.py, agents/music/music_agent.py  feedback routes    *)
(*                                                                         *)
(* Time is discrete.  One tick is 0.05 s in the rate-limiter part, so the  *)
(* configured rates 20/s, 10/s and 5/s are 1, 1/2 and 1/4 token per tick.  *)
(* Token counts are kept in units of 1/TokenUnit token so that the         *)
(* fractional refills of the source stay exact.                            *)
(***************************************************************************)
EXTENDS Integers, Sequences, FiniteSets, TLC

VARIABLES
    now,        \* time.time(), in ticks
    bucket,     \* RateLimiter instances of the SpotifyRateLimiter, by name
    task,       \* coroutines calling the limiter, by task id
    use_redis,  \* whether the Redis caches were imported (else CacheManager)
    redis,      \* keys held by the Redis server behind RedisCache
    redisUp,    \* whether the Redis server answers
    stats,      \* RedisCache.stats
    memory,     \* CacheManager.cache
    lastOp,     \* history: the last cache operation and what it returned
    written,    \* history: the last successful set of each key
    ops,        \* history: number of cache / limiter operations so far
    check,      \* check_rate_limit calls in progress, by replica
    user_requests,  \* UserRateLimiter.cache of the in-memory mode, by replica
    allowed,    \* history: calls answered allowed, by replica, user, time
    agg,        \* the generate_candidates call in progress
    rank,       \* the rank_candidates call in progress
    req,        \* the generate_recommendations call in progress
    rl,         \* one MusicRecommendationRL instance and the events fed to it
    route,      \* the feedback and insights routes: what they answered
    policy      \* ListeningHistoryService: COLD_START_WEIGHTS, last answer

limiterVars == <<bucket, task>>
cacheVars == <<use_redis, redis, redisUp, stats, memory, lastOp, written, ops>>
userVars == <<check, user_requests, allowed>>
pipelineVars == <<agg, rank, req, rl, route, policy>>
otherVars == <<limiterVars, pipelineVars>>
nonLimiterVars == <<cacheVars, userVars, pipelineVars>>
nonCacheVars == <<limiterVars, userVars, pipelineVars>>
nonPipelineVars == <<now, limiterVars, cacheVars, userVars>>
nonAggVars == <<rank, req, rl, route, policy, nonPipelineVars>>
nonRankVars == <<agg, req, rl, route, policy, nonPipelineVars>>
nonLearnerVars == <<agg, rank, req, route, policy, nonPipelineVars>>
nonRouteVars == <<agg, rank, req, rl, policy, nonPipelineVars>>
nonPolicyVars == <<agg, rank, req, rl, route, nonPipelineVars>>
\* What generate_recommendations never touches.
outsideService == <<now, limiterVars, userVars, use_redis, redisUp, memory,
                    lastOp, written, ops, rl, route, policy>>
vars == <<now, limiterVars, cacheVars, userVars, pipelineVars>>

Min(a, b) == IF a < b THEN a ELSE b
Max(a, b) == IF a > b THEN a ELSE b

RECURSIVE Pow2(_)
Pow2(n) == IF n <= 0 THEN 1 ELSE 2 * Pow2(n - 1)
RECURSIVE Pow10(_)
Pow10(n) == IF n <= 0 THEN 1 ELSE 10 * Pow10(n - 1)

(***************************************************************************)
(* Bounds of the model.                                                    *)
(***************************************************************************)
NumTasks == 3          \* concurrent coroutines calling acquire_for_endpoint
NumCallers == 1        \* concurrent coroutines calling rate_limited_call
MaxTime == 5           \* the clock stops here
HalfTimeout == 2       \* timeout/2 handed to each bucket, in ticks
BurstGlobal == 2       \* burst capacities, scaled down from 50 / 20 / 10
BurstTracks == 1
BurstRecs == 1

Tasks == 1..NumTasks
Callers == 1..NumCallers

(***************************************************************************)
(* RateLimiter (token bucket)                                              *)
(***************************************************************************)
TokenUnit == 4         \* model units per token: "1" in `tokens >= 1`
MaxPollTicks == 2      \* the 0.1 of asyncio.sleep(min(wait_time, 0.1))

\* SpotifyRateLimiter.ENDPOINT_LIMITS and the global limiter; rate in units
\* per tick (requests_per_second * TokenUnit / 20).
ENDPOINT_LIMITS ==
    [ tracks          |-> [rate |-> 2, burst |-> BurstTracks],
      recommendations |-> [rate |-> 1, burst |-> BurstRecs] ]

GLOBAL_LIMIT == [rate |-> 4, burst |-> BurstGlobal]

Buckets == DOMAIN ENDPOINT_LIMITS \cup {"global"}

\* Endpoint categories a caller may name; "unknown" is not configured.
Endpoints == DOMAIN ENDPOINT_LIMITS \cup {"unknown"}

Config(b) == IF b = "global" THEN GLOBAL_LIMIT ELSE ENDPOINT_LIMITS[b]

\* self.limiters.get(endpoint, self.limiters["tracks"])
LimiterFor(e) == IF e \in DOMAIN ENDPOINT_LIMITS THEN e ELSE "tracks"

\* RateLimiter.__init__
NewBucket(b) ==
    [ tokens           |-> Config(b).burst * TokenUnit,
      last_refill      |-> 0,
      total_requests   |-> 0,
      rejected_requests |-> 0,
      calls            |-> 0 ]      \* history: acquire calls begun on it

\* min(self.burst_capacity, self.tokens + tokens_to_add)
RefillNoCap(b, bk) == bk.tokens + (now - bk.last_refill) * Config(b).rate

RefilledTokens(b, bk) ==
    Min(Config(b).burst * TokenUnit,
        bk.tokens + (now - bk.last_refill) * Config(b).rate)

\* RateLimiter._refill_tokens
RefillTokens(b, bk) ==
    [bk EXCEPT !.tokens = RefilledTokens(b, bk), !.last_refill = now]

\* `self.tokens -= 1; self._record_request()`
TakeNothing(bk) == [bk EXCEPT !.total_requests = @ + 1]

TakeToken(bk) ==
    [bk EXCEPT !.tokens = @ - TokenUnit, !.total_requests = @ + 1]

\* min(wait_time, 0.1) with wait_time = 1 / requests_per_second
SleepTicks(b) ==
    Min((TokenUnit + Config(b).rate - 1) \div Config(b).rate, MaxPollTicks)

\* One pass of the `while time.time() - start_time < timeout` loop of
\* RateLimiter.acquire, up to its return or its asyncio.sleep.
Poll(bks, b, start, timeout) ==
    IF ~(now - start < timeout)
    THEN [ bks |-> [bks EXCEPT ![b].rejected_requests = @ + 1],
           out |-> "timeout" ]
    ELSE LET r == RefillTokens(b, bks[b])
         IN  IF r.tokens >= TokenUnit
             THEN [bks |-> [bks EXCEPT ![b] = TakeToken(r)], out |-> "granted"]
             ELSE [bks |-> [bks EXCEPT ![b] = r], out |-> "sleep"]

\* Tokens bucket b would hold at time at >= last_refill if nobody touched it.
TokensAt(b, bk, at) ==
    Min(Config(b).burst * TokenUnit,
        bk.tokens + (at - bk.last_refill) * Config(b).rate)

\* History of a returning acquire: a token was in the bucket strictly before
\* the deadline start + timeout and nobody has taken it since.
TokenWasThere(bks, b, start, timeout) ==
    /\ bks[b].last_refill < start + timeout
    /\ TokensAt(b, bks[b], start + timeout - 1) >= TokenUnit

(***************************************************************************)
(* SpotifyRateLimiter.acquire_for_endpoint                                 *)
(*                                                                         *)
(* A coroutine runs without interruption between two suspensions, so the   *)
(* steps below each run from a resumption to the next asyncio.sleep or to  *)
(* the return.  out is "granted", "denied" or "sleep".                     *)
(***************************************************************************)
NoTask ==
    [ pc |-> "idle", mode |-> "none", endpoint |-> "tracks",
      stage |-> "global", start |-> 0, half |-> 0, wakeAt |-> 0,
      result |-> "none", taken |-> {}, missed |-> FALSE,
      attempt |-> 0, max_retries |-> 0, invocations |-> 0,
      lastWait |-> 0, lastKind |-> "none" ]

\* A finished call: only what it returned and its history are kept.
Finish(tk, res) ==
    [NoTask EXCEPT !.pc = "done", !.mode = tk.mode, !.endpoint = tk.endpoint,
                   !.result = res, !.taken = tk.taken, !.missed = tk.missed,
                   !.attempt = tk.attempt, !.max_retries = tk.max_retries,
                   !.invocations = tk.invocations]

\* `return await limiter.acquire(timeout=timeout/2)`
EndpointStep(bks, tk, start) ==
    LET b == LimiterFor(tk.endpoint)
        p == Poll(bks, b, start, tk.half)
    IN  CASE p.out = "granted" ->
               [ bks |-> p.bks, out |-> "granted",
                 tk |-> [tk EXCEPT !.taken = @ \cup {b}] ]
          [] p.out = "sleep" ->
               [ bks |-> p.bks, out |-> "sleep",
                 tk |-> [tk EXCEPT !.pc = "sleep", !.stage = "endpoint",
                                   !.start = start,
                                   !.wakeAt = now + SleepTicks(b)] ]
          [] OTHER ->
               [ bks |-> p.bks, out |-> "denied",
                 tk |-> [tk EXCEPT !.missed =
                            TokenWasThere(bks, b, start, tk.half)] ]

\* the bug of returning as soon as the global bucket has granted
AfterGlobalGrantedNoEndpoint(bks, tk) ==
    [bks |-> bks, out |-> "granted", tk |-> tk]

\* history: one more acquire call begun on bucket b
BeginAcquire(bks, b) == [bks EXCEPT ![b].calls = @ + 1]

\* global granted: go on to the endpoint limiter, whose acquire starts now
AfterGlobalGranted(bks, tk) ==
    EndpointStep(BeginAcquire(bks, LimiterFor(tk.endpoint)), tk, now)

\* `if not await self.global_limiter.acquire(timeout=timeout/2): return False`
GlobalStep(bks, tk, start) ==
    LET p == Poll(bks, "global", start, tk.half)
    IN  CASE p.out = "granted" ->
               AfterGlobalGranted(p.bks, [tk EXCEPT !.taken = @ \cup {"global"}])
          [] p.out = "sleep" ->
               [ bks |-> p.bks, out |-> "sleep",
                 tk |-> [tk EXCEPT !.pc = "sleep", !.stage = "global",
                                   !.start = start,
                                   !.wakeAt = now + SleepTicks("global")] ]
          [] OTHER ->
               [ bks |-> p.bks, out |-> "denied",
                 tk |-> [tk EXCEPT !.missed =
                            TokenWasThere(bks, "global", start, tk.half)] ]

\* acquire_for_endpoint from its call
AcquireForEndpoint(bks, tk) ==
    GlobalStep(BeginAcquire(bks, "global"),
               [tk EXCEPT !.taken = {}, !.missed = FALSE], now)

\* acquire_for_endpoint resumed after an asyncio.sleep
ResumeAcquire(bks, tk) ==
    IF tk.stage = "global"
    THEN GlobalStep(bks, tk, tk.start)
    ELSE EndpointStep(bks, tk, tk.start)

(***************************************************************************)
(* SpotifyRateLimiter.rate_limited_call                                    *)
(***************************************************************************)
MaxRetries == 1        \* bound on max_retries (the default is 3)
BackoffTicks == 1      \* ticks standing for the 0.5 s of the linear backoff

\* wait_time = (2 ** attempt) * 1.0
QuotaWait(attempt) == 2 * BackoffTicks * Pow2(attempt)

\* 0.5 * (attempt + 1)
LinearWait(attempt) == BackoffTicks * (attempt + 1)

\* Upstream outcomes: a result, an exception classified as rate limit
\* (status 429, or "429" / "rate limit" in its text), any other exception.
UpstreamOutcomes == {"ok", "quota", "error"}

\* the bug of letting the last exception out of the loop
GiveUpRaises(tk) == Finish(tk, "raised")

\* after the for loop: `return None`
GiveUp(tk) == Finish(tk, "unavailable")

\* What the caller of acquire_for_endpoint does with its outcome.
\* Direct callers get the boolean; rate_limited_call returns None when
\* denied and otherwise invokes the operation and awaits it.
AfterAcquire(r) ==
    CASE r.out = "sleep" -> r.tk
      [] r.tk.mode = "acquire" ->
           Finish(r.tk, IF r.out = "granted" THEN "granted" ELSE "denied")
      [] r.out = "granted" ->
           [r.tk EXCEPT !.pc = "upstream", !.invocations = @ + 1,
                        !.start = 0, !.wakeAt = 0, !.stage = "global",
                        !.lastWait = 0, !.lastKind = "none"]
      [] OTHER -> GiveUp(r.tk)

\* the `except Exception` clause of one attempt
HandleFailure(tk, outcome) ==
    CASE outcome = "quota" ->
           [tk EXCEPT !.pc = "backoff",
                      !.wakeAt = now + QuotaWait(tk.attempt),
                      !.lastWait = QuotaWait(tk.attempt),
                      !.lastKind = "quota"]
      [] tk.attempt < tk.max_retries ->
           [tk EXCEPT !.pc = "backoff",
                      !.wakeAt = now + LinearWait(tk.attempt),
                      !.lastWait = LinearWait(tk.attempt),
                      !.lastKind = "error"]
      [] OTHER -> GiveUp(tk)

(***************************************************************************)
(* Actions of the rate limiter                                             *)
(***************************************************************************)
\* Coroutines are interchangeable: they start in the order of their ids.
InOrder(t) == IF t = 1 THEN TRUE ELSE task[t - 1].pc # "idle"

\* A coroutine calls acquire_for_endpoint(e, timeout = 2 * half).
StartAcquire(t, e, half) ==
    /\ task[t].pc = "idle"
    /\ InOrder(t)
    /\ LET r == AcquireForEndpoint(bucket,
                   [NoTask EXCEPT !.mode = "acquire", !.endpoint = e,
                                  !.half = half])
       IN  /\ bucket' = r.bks
           /\ task' = [task EXCEPT ![t] = AfterAcquire(r)]
    /\ UNCHANGED <<now, nonLimiterVars>>

\* A coroutine calls rate_limited_call(e, func, max_retries = m).
StartCall(t, e, m) ==
    /\ task[t].pc = "idle"
    /\ InOrder(t)
    /\ LET r == AcquireForEndpoint(bucket,
                   [NoTask EXCEPT !.mode = "call", !.endpoint = e,
                                  !.half = HalfTimeout, !.max_retries = m])
       IN  /\ bucket' = r.bks
           /\ task' = [task EXCEPT ![t] = AfterAcquire(r)]
    /\ UNCHANGED <<now, nonLimiterVars>>

\* asyncio.sleep inside RateLimiter.acquire is over (it lasts at least the
\* time asked for).
Wake(t) ==
    /\ task[t].pc = "sleep"
    /\ now >= task[t].wakeAt
    /\ LET r == ResumeAcquire(bucket, task[t])
       IN  /\ bucket' = r.bks
           /\ task' = [task EXCEPT ![t] = AfterAcquire(r)]
    /\ UNCHANGED <<now, nonLimiterVars>>

\* The awaited operation returns or raises.
UpstreamReturn(t, outcome) ==
    /\ task[t].pc = "upstream"
    /\ task' = [task EXCEPT ![t] =
                  IF outcome = "ok"
                  THEN Finish(@, "ok")
                  ELSE HandleFailure(@, outcome)]
    /\ UNCHANGED <<now, bucket, nonLimiterVars>>

\* The backoff sleep is over: next iteration of the for loop, if any.
BackoffWake(t) ==
    /\ task[t].pc = "backoff"
    /\ now >= task[t].wakeAt
    /\ IF task[t].attempt < task[t].max_retries
       THEN LET r == AcquireForEndpoint(bucket,
                        [task[t] EXCEPT !.attempt = @ + 1])
            IN  /\ bucket' = r.bks
                /\ task' = [task EXCEPT ![t] = AfterAcquire(r)]
       ELSE /\ task' = [task EXCEPT ![t] = GiveUp(@)]
            /\ UNCHANGED bucket
    /\ UNCHANGED <<now, nonLimiterVars>>

Tick ==
    /\ now < MaxTime
    /\ now' = now + 1
    /\ UNCHANGED <<limiterVars, nonLimiterVars>>

(***************************************************************************)
(* Caches: RedisCache (redis_cache.py) and CacheManager (rate_limiter.py)  *)
(* One tick is one second of TTL here.                                     *)
(***************************************************************************)
MaxTTL == 2            \* largest ttl argument
MaxCacheTime == 3      \* the clock of the cache runs stop here
MaxCacheOps == 3       \* cache operations per run
default_ttl == 2       \* CacheManager.default_ttl, scaled down from 300

Users == {"u1", "u2"}
Prefixes == {"recommendations", "user_rate_limit"}

\* _make_key(prefix, user_id=u): the string "prefix:user_id=u".
MakeKey(prefix, user_id) == [prefix |-> prefix, user_id |-> user_id]
Keys == {MakeKey(p, u) : p \in Prefixes, u \in Users}
CacheKeys == {MakeKey("recommendations", "u1")}

\* Python values handed to the caches.
None == [type |-> "None", val |-> <<>>]
PyInt(n) == [type |-> "int", val |-> <<n>>]
PyList(items) == [type |-> "list", val |-> items]
PyTuple(items) == [type |-> "tuple", val |-> items]
PyDict(d) == [type |-> "dict", val |-> <<d>>]
Values == {PyInt(1), PyList(<<1, 2>>), PyTuple(<<1, 2>>)}

\* ttl arguments; 0 stands for a ttl that is not given (None).
TTLArgs == 0..MaxTTL

\* json.dumps(value, default=str): lists and tuples both become arrays,
\* anything JSON does not know is replaced by its str().
JsonDumps(v) ==
    [json |-> CASE v.type = "int" -> "number"
                [] v.type \in {"list", "tuple"} -> "array"
                [] v.type = "None" -> "null"
                [] v.type = "dict" -> "object"
                [] OTHER -> "string",
     val |-> v.val]

\* json.loads(text): an array always comes back as a list.
JsonLoads(t) ==
    [type |-> CASE t.json = "number" -> "int"
                [] t.json = "array" -> "list"
                [] t.json = "null" -> "None"
                [] t.json = "object" -> "dict"
                [] OTHER -> "str",
     val |-> t.val]

NoExpiry == -1         \* what TTL answers for a key without expiration
NoKey == -2            \* what TTL answers for a missing key

NoEntry == [present |-> FALSE, text |-> JsonDumps(None), expire |-> NoExpiry]

\* The server keeps a key until its expiry instant.
Live(e, at) == e.present /\ (e.expire = NoExpiry \/ at < e.expire)

\* Server commands GET, SETEX / SET, DEL, INCR, TTL.
ServerGet(store, k) == IF Live(store[k], now) THEN store[k] ELSE NoEntry
ServerSet(store, k, text, ttl) ==
    [store EXCEPT ![k] = [present |-> TRUE, text |-> text,
                          expire |-> IF ttl > 0 THEN now + ttl
                                     ELSE NoExpiry]]
ServerDel(store, k) == [store EXCEPT ![k] = NoEntry]
ServerIncr(store, k) ==
    LET e == ServerGet(store, k)
    IN  IF ~e.present
        THEN [store EXCEPT ![k] = [present |-> TRUE,
                                   text |-> JsonDumps(PyInt(1)),
                                   expire |-> NoExpiry]]
        ELSE [store EXCEPT ![k].text.val = <<@[1] + 1>>]
ServerTtl(store, k) ==
    LET e == ServerGet(store, k)
    IN  IF ~e.present THEN NoKey
        ELSE IF e.expire = NoExpiry THEN NoExpiry
        ELSE e.expire - now

NewStats == [hits |-> 0, misses |-> 0, sets |-> 0, deletes |-> 0,
             errors |-> 0]

\* RedisCache.get: the value, or None on a miss or on any error.
\* Returns the answer and the statistics after the call.
RedisCacheGet(store, up, st, k) ==
    IF ~up
    THEN [out |-> None, ok |-> FALSE,
          stats |-> [st EXCEPT !.errors = @ + 1]]
    ELSE LET e == ServerGet(store, k)
         IN  IF ~e.present
             THEN [out |-> None, ok |-> TRUE,
                   stats |-> [st EXCEPT !.misses = @ + 1]]
             ELSE [out |-> JsonLoads(e.text), ok |-> TRUE,
                   stats |-> [st EXCEPT !.hits = @ + 1]]

\* RedisCache.set: `if ttl: setex else: set`; True, or False on any error.
RedisCacheSet(store, up, st, k, v, ttl) ==
    IF ~up
    THEN [store |-> store, ok |-> FALSE,
          stats |-> [st EXCEPT !.errors = @ + 1]]
    ELSE [store |-> ServerSet(store, k, JsonDumps(v), ttl), ok |-> TRUE,
          stats |-> [st EXCEPT !.sets = @ + 1]]

\* RedisCache.delete.
RedisCacheDelete(store, up, st, k) ==
    IF ~up
    THEN [store |-> store, ok |-> FALSE,
          stats |-> [st EXCEPT !.errors = @ + 1]]
    ELSE [store |-> ServerDel(store, k), ok |-> ServerGet(store, k).present,
          stats |-> [st EXCEPT !.deletes = @ + 1]]

\* RedisCache.increment: the new count, or 0 on any error.
RedisCacheIncrement(store, up, k) ==
    IF ~up \/ (ServerGet(store, k).present
                  /\ ServerGet(store, k).text.json # "number")
    THEN [store |-> store, out |-> 0]
    ELSE LET st2 == ServerIncr(store, k)
         IN  [store |-> st2, out |-> st2[k].text.val[1]]

\* RedisCache.get_ttl: -2 on any error.
RedisCacheGetTtl(store, up, k) == IF ~up THEN NoKey ELSE ServerTtl(store, k)

\* CacheManager entries: (value, expire_time).
NoMemory == [present |-> FALSE, value |-> None, expire_time |-> 0]

\* CacheManager.get: the value while time.time() < expire_time, else the
\* entry is dropped and None returned.
MemoryFresh(e) == e.present /\ now < e.expire_time
CacheManagerGet(mem, k) ==
    IF MemoryFresh(mem[k])
    THEN [out |-> mem[k].value, mem |-> mem]
    ELSE [out |-> None, mem |-> [mem EXCEPT ![k] = NoMemory]]

\* CacheManager.set: expire_time = time.time() + (ttl or default_ttl).
CacheManagerSet(mem, k, v, ttl) ==
    [mem EXCEPT ![k] = [present |-> TRUE, value |-> v,
                        expire_time |->
                            now + (IF ttl > 0 THEN ttl ELSE default_ttl)]]

NoWrite == [set |-> FALSE, value |-> None, ttl |-> 0, at |-> 0]
NoOp == [op |-> "none", key |-> MakeKey("recommendations", "u1"),
        out |-> None, ok |-> TRUE, at |-> 0]

(***************************************************************************)
(* Actions of the caches                                                   *)
(***************************************************************************)
MoreOps == ops < MaxCacheOps

RedisSet(k, v, ttl) ==
    /\ use_redis
    /\ MoreOps
    /\ LET r == RedisCacheSet(redis, redisUp, stats, k, v, ttl)
       IN  /\ redis' = r.store
           /\ stats' = r.stats
           /\ lastOp' = [op |-> "set", key |-> k,
                         out |-> None, ok |-> r.ok, at |-> now]
           /\ written' = IF r.ok
                         THEN [written EXCEPT ![k] =
                                 [set |-> TRUE, value |-> v, ttl |-> ttl,
                                  at |-> now]]
                         ELSE written
    /\ ops' = ops + 1
    /\ UNCHANGED <<now, use_redis, redisUp, memory, nonCacheVars>>

RedisGet(k) ==
    /\ use_redis
    /\ MoreOps
    /\ LET r == RedisCacheGet(redis, redisUp, stats, k)
       IN  /\ stats' = r.stats
           /\ lastOp' = [op |-> "get", key |-> k,
                         out |-> r.out, ok |-> r.ok, at |-> now]
    /\ ops' = ops + 1
    /\ UNCHANGED <<now, use_redis, redis, redisUp, memory, written, nonCacheVars>>

RedisDelete(k) ==
    /\ use_redis
    /\ MoreOps
    /\ LET r == RedisCacheDelete(redis, redisUp, stats, k)
       IN  /\ redis' = r.store
           /\ stats' = r.stats
           /\ lastOp' = [op |-> "delete", key |-> k,
                         out |-> None, ok |-> r.ok, at |-> now]
           /\ written' = IF redisUp
                         THEN [written EXCEPT ![k] = NoWrite]
                         ELSE written
    /\ ops' = ops + 1
    /\ UNCHANGED <<now, use_redis, redisUp, memory, nonCacheVars>>

MemorySet(k, v, ttl) ==
    /\ ~use_redis
    /\ MoreOps
    /\ memory' = CacheManagerSet(memory, k, v, ttl)
    /\ lastOp' = [op |-> "set", key |-> k,
                  out |-> None, ok |-> TRUE, at |-> now]
    /\ written' = [written EXCEPT ![k] =
                     [set |-> TRUE, value |-> v, ttl |-> ttl, at |-> now]]
    /\ ops' = ops + 1
    /\ UNCHANGED <<now, use_redis, redis, redisUp, stats, nonCacheVars>>

MemoryGet(k) ==
    /\ ~use_redis
    /\ MoreOps
    /\ LET r == CacheManagerGet(memory, k)
       IN  /\ memory' = r.mem
           /\ lastOp' = [op |-> "get", key |-> k,
                         out |-> r.out, ok |-> TRUE, at |-> now]
    /\ ops' = ops + 1
    /\ UNCHANGED <<now, use_redis, redis, redisUp, stats, written, nonCacheVars>>

\* CacheManager.invalidate.
MemoryInvalidate(k) ==
    /\ ~use_redis
    /\ MoreOps
    /\ memory' = [memory EXCEPT ![k] = NoMemory]
    /\ lastOp' = [op |-> "delete", key |-> k,
                  out |-> None, ok |-> TRUE, at |-> now]
    /\ written' = [written EXCEPT ![k] = NoWrite]
    /\ ops' = ops + 1
    /\ UNCHANGED <<now, use_redis, redis, redisUp, stats, nonCacheVars>>

\* CacheManager.clear_expired.
ClearExpired ==
    /\ ~use_redis
    /\ \E k \in Keys : memory[k].present /\ now >= memory[k].expire_time
    /\ memory' = [k \in Keys |->
                    IF memory[k].present /\ now >= memory[k].expire_time
                    THEN NoMemory ELSE memory[k]]
    /\ UNCHANGED <<now, use_redis, redis, redisUp, stats, lastOp, written, ops,
                   nonCacheVars>>

\* The Redis server becomes unreachable / reachable again; it keeps its keys.
RedisDown ==
    /\ use_redis
    /\ redisUp
    /\ redisUp' = FALSE
    /\ UNCHANGED <<now, use_redis, redis, stats, memory, lastOp, written, ops,
                   nonCacheVars>>

RedisBack ==
    /\ use_redis
    /\ ~redisUp
    /\ redisUp' = TRUE
    /\ UNCHANGED <<now, use_redis, redis, stats, memory, lastOp, written, ops,
                   nonCacheVars>>

\* A second passes; the server drops the keys whose expiry instant is reached.
CacheTick ==
    /\ now < MaxCacheTime
    /\ now' = now + 1
    /\ redis' = [k \in Keys |->
                   IF Live(redis[k], now + 1) THEN redis[k] ELSE NoEntry]
    /\ UNCHANGED <<use_redis, redisUp, stats, memory, lastOp, written, ops,
                   nonCacheVars>>

\* rate_limiter.py imports the Redis caches and falls back to CacheManager
\* when the import fails.
InitCache ==
    /\ redis = [k \in Keys |-> NoEntry]
    /\ redisUp = TRUE
    /\ stats = NewStats
    /\ memory = [k \in Keys |-> NoMemory]
    /\ lastOp = NoOp
    /\ written = [k \in Keys |-> NoWrite]
    /\ ops = 0

(***************************************************************************)
(* UserRateLimiter (rate_limiter.py).  One tick is one second scaled so    *)
(* that the window is window_seconds ticks long.                           *)
(***************************************************************************)
requests_per_minute == 2   \* scaled down from 100
window_seconds == 2        \* scaled down from 60
NumReplicas == 2           \* processes running the limiter
MaxUserTime == 3           \* the clock of the limiter runs stops here
MaxChecks == 4             \* check_rate_limit calls per run

Replicas == 1..NumReplicas
Identities == {"u1"}       \* identities whose requests are checked
UserTimes == 0..MaxUserTime

\* key_prefix = f"user_rate_limit:{user_id}", user_id=user_id
RateKey(user_id) == MakeKey("user_rate_limit", user_id)

\* at is the call's `now = time.time()`.
Idle == [pc |-> "idle", user_id |-> "u1", is_allowed |-> TRUE,
         retry_after |-> 0, at |-> 0]

NoRequests == [present |-> FALSE, times |-> <<>>]

\* `while user_requests and user_requests[0] < window_start: popleft()`
RECURSIVE DropOld(_, _)
DropOld(times, window_start) ==
    IF times # <<>> /\ times[1] < window_start
    THEN DropOld(Tail(times), window_start)
    ELSE times

\* The in-memory branch of check_rate_limit.
CheckInMemory(reqs, user_id) ==
    LET recent == DropOld(reqs[user_id].times, now - window_seconds)
    IN  IF Len(recent) >= requests_per_minute
        THEN [reqs |-> [reqs EXCEPT ![user_id] =
                          [present |-> TRUE, times |-> recent]],
              is_allowed |-> FALSE,
              retry_after |-> Max(1, window_seconds - (now - recent[1]))]
        ELSE [reqs |-> [reqs EXCEPT ![user_id] =
                          [present |-> TRUE, times |-> Append(recent, now)]],
              is_allowed |-> TRUE,
              retry_after |-> 0]

\* `current_count = self.cache.get(...) or 0`
CurrentCount(out) == IF out.type = "int" THEN out.val[1] ELSE 0

\* `retry_after = max(1, ttl) if ttl > 0 else self.window_seconds`
RetryAfter(ttl) == IF ttl > 0 THEN Max(1, ttl) ELSE window_seconds

Record(hist, r, user_id) == [hist EXCEPT ![r][user_id][now] = @ + 1]

(***************************************************************************)
(* Actions of the per-user limiter                                         *)
(***************************************************************************)
\* check_rate_limit on a replica without Redis: one uninterrupted step.
CheckMemory(r, u) ==
    /\ ~use_redis
    /\ ops < MaxChecks
    /\ check[r].pc = "idle"
    /\ LET c == CheckInMemory(user_requests[r], u)
       IN  /\ user_requests' = [user_requests EXCEPT ![r] = c.reqs]
           /\ check' = [check EXCEPT ![r] =
                          [pc |-> "idle", user_id |-> u,
                           is_allowed |-> c.is_allowed,
                           retry_after |-> c.retry_after, at |-> now]]
           /\ allowed' = IF c.is_allowed THEN Record(allowed, r, u)
                         ELSE allowed
    /\ ops' = ops + 1
    /\ UNCHANGED <<now, use_redis, redis, redisUp, stats, memory, lastOp,
                   written, otherVars>>

\* check_rate_limit with Redis, up to the test of the count: the answer is
\* a denial, or the call goes on to increment the counter.
CheckGet(r, u) ==
    /\ use_redis
    /\ ops < MaxChecks
    /\ check[r].pc = "idle"
    /\ LET g == RedisCacheGet(redis, redisUp, stats, RateKey(u))
       IN  /\ stats' = g.stats
           /\ check' = [check EXCEPT ![r] =
                 IF CurrentCount(g.out) >= requests_per_minute
                 THEN [pc |-> "idle", user_id |-> u, is_allowed |-> FALSE,
                       retry_after |->
                         RetryAfter(RedisCacheGetTtl(redis, redisUp,
                                                     RateKey(u))),
                       at |-> now]
                 ELSE [pc |-> "increment", user_id |-> u,
                       is_allowed |-> TRUE, retry_after |-> 0,
                       at |-> now]]
    /\ ops' = ops + 1
    /\ UNCHANGED <<now, use_redis, redis, redisUp, memory, lastOp, written,
                   user_requests, allowed, otherVars>>

\* `new_count = self.cache.increment(...)`; the call is allowed, after
\* setting the expiry when new_count == 1.
CheckIncrement(r) ==
    /\ check[r].pc = "increment"
    /\ LET i == RedisCacheIncrement(redis, redisUp, RateKey(check[r].user_id))
       IN  /\ redis' = i.store
           /\ IF i.out = 1
              THEN /\ check' = [check EXCEPT ![r].pc = "set"]
                   /\ UNCHANGED allowed
              ELSE /\ check' = [check EXCEPT ![r].pc = "idle"]
                   /\ allowed' = Record(allowed, r, check[r].user_id)
    /\ UNCHANGED <<now, use_redis, redisUp, stats, memory, lastOp, written,
                   ops, user_requests, otherVars>>

\* `self.cache.set(key_prefix, 1, ttl=self.window_seconds, ...)`
CheckSet(r) ==
    /\ check[r].pc = "set"
    /\ LET w == RedisCacheSet(redis, redisUp, stats,
                              RateKey(check[r].user_id), PyInt(1),
                              window_seconds)
       IN  /\ redis' = w.store
           /\ stats' = w.stats
    /\ check' = [check EXCEPT ![r].pc = "idle"]
    /\ allowed' = Record(allowed, r, check[r].user_id)
    /\ UNCHANGED <<now, use_redis, redisUp, memory, lastOp, written, ops,
                   user_requests, otherVars>>

UserTick ==
    /\ now < MaxUserTime
    /\ now' = now + 1
    /\ redis' = [k \in Keys |->
                   IF Live(redis[k], now + 1) THEN redis[k] ELSE NoEntry]
    /\ UNCHANGED <<use_redis, redisUp, stats, memory, lastOp, written, ops,
                   userVars, otherVars>>

InitUser ==
    /\ check = [r \in Replicas |-> Idle]
    /\ user_requests = [r \in Replicas |-> [u \in Users |-> NoRequests]]
    /\ allowed = [r \in Replicas |-> [u \in Users |-> [t \in UserTimes |-> 0]]]

(***************************************************************************)
(* Candidate aggregation: MusicRecommendationService.generate_candidates   *)
(***************************************************************************)
target_count == 4      \* scaled down from 300
PopularCap == 2        \* the 100 of limit=min(100, ...), scaled down
MaxGenres == 2         \* genres _get_top_genres may return (at most 3 used)

\* A candidate: its two identity fields ("" when absent or None), the
\* source that returned it and what the scorer computes from its features.
Track(track_id, id, match, audio, artist_name) ==
    [track_id |-> track_id, id |-> id, source |-> "none", match |-> match,
     audio |-> audio, artist_name |-> artist_name]

Ta == Track("a", "", 100, "calm", "x")
TaById == Track("", "a", 50, "loud", "y")
Tb == Track("b", "a", 90, "loud", "x")
Tc == Track("c", "", 50, "calm", "y")
Tnone == Track("", "", 50, "calm", "x")

\* What one source call may return.
ReturnLists == {<<>>, <<Ta>>, <<TaById, Tb>>, <<Tnone, Ta, Ta>>, <<Tc, Tb>>}

\* `candidate.get('track_id') or candidate.get('id')`
Identity(c) == IF c.track_id # "" THEN c.track_id ELSE c.id

From(source, tracks) ==
    [i \in 1..Len(tracks) |-> [tracks[i] EXCEPT !.source = source]]

\* The deduplication loop of generate_candidates.
RECURSIVE DedupLoop(_, _, _)
DedupLoop(candidates, seen_ids, unique_candidates) ==
    IF candidates = <<>> THEN unique_candidates
    ELSE LET candidate == Head(candidates)
             track_id == Identity(candidate)
         IN  IF track_id # "" /\ track_id \notin seen_ids
             THEN DedupLoop(Tail(candidates), seen_ids \cup {track_id},
                            Append(unique_candidates, candidate))
             ELSE DedupLoop(Tail(candidates), seen_ids, unique_candidates)

RECURSIVE KeepIdentified(_)
KeepIdentified(candidates) ==
    IF candidates = <<>> THEN <<>>
    ELSE IF Identity(Head(candidates)) # ""
         THEN <<Head(candidates)>> \o KeepIdentified(Tail(candidates))
         ELSE KeepIdentified(Tail(candidates))

Deduplicate(candidates) == DedupLoop(candidates, {}, <<>>)

\* get_popular_tracks_for_cold_start: the rows of the query, at most
\* `limit` of them, one per track_id; [] on any error.
RECURSIVE PopularLoop(_, _, _)
PopularLoop(rows, seen_tracks, unique_tracks) ==
    IF rows = <<>> THEN unique_tracks
    ELSE IF Head(rows).track_id \notin seen_tracks
         THEN PopularLoop(Tail(rows), seen_tracks \cup {Head(rows).track_id},
                          Append(unique_tracks, Head(rows)))
         ELSE PopularLoop(Tail(rows), seen_tracks, unique_tracks)

GetPopularTracks(rows, limit, ok) ==
    IF ~ok \/ limit <= 0 THEN <<>>
    ELSE PopularLoop(SubSeq(rows, 1, Min(Len(rows), limit)), {}, <<>>)

\* ListeningHistoryService.get_cold_start_stage
GetColdStartStage(account_age_days) ==
    IF account_age_days <= 7 THEN "week_1"
    ELSE IF account_age_days <= 28 THEN "week_2_4"
    ELSE "month_2_plus"

\* Account ages the lookup may answer; known = FALSE stands for None.
AgeLookups ==
    {[known |-> TRUE, days |-> d] : d \in {7, 8, 28, 29}}
        \cup {[known |-> FALSE, days |-> 0]}

\* The stage get_recommendation_weights reports.
StageOf(lookup) ==
    IF lookup.known THEN GetColdStartStage(lookup.days) ELSE "month_2_plus"

(***************************************************************************)
(* The cold-start policy (listening_history_service.py)                    *)
(***************************************************************************)
MaxAge == 30           \* largest account age consulted, in days
MaxConsults == 3       \* consultations of the policy in one behaviour

\* Weights in tenths.
COLD_START_WEIGHTS ==
    [week_1 |-> [personality |-> 8, popular_tracks |-> 2],
     week_2_4 |-> [personality |-> 6, history |-> 4],
     month_2_plus |-> [history |-> 4, personality |-> 4, other |-> 2]]

\* The weights with weights['stage'] and weights['account_age_days'] set.
Tagged(weights, stage, lookup) ==
    [weights |-> weights, stage |-> stage, account_age_days |-> lookup]

\* A get_recommendation_weights that tags the shared entry, not a copy.
TagSharedWeights(config, lookup) ==
    [weights |-> Tagged(config[StageOf(lookup)], StageOf(lookup), lookup),
     config |-> [config EXCEPT
                   ![StageOf(lookup)] =
                       Tagged(config[StageOf(lookup)], StageOf(lookup),
                              lookup)]]

\* get_recommendation_weights: the dict returned and COLD_START_WEIGHTS
\* after the call; the returned dict is a copy, so tagging it leaves the
\* class attribute as it was.
GetRecommendationWeights(config, lookup) ==
    LET stage == StageOf(lookup)
        weights == config[stage]
    IN  [weights |-> Tagged(weights, stage, lookup), config |-> config]

NoPolicy ==
    [config |-> COLD_START_WEIGHTS, consulted |-> 0, override |-> FALSE,
     lookup |-> [known |-> FALSE, days |-> 0],
     answer |-> Tagged(COLD_START_WEIGHTS["month_2_plus"], "month_2_plus",
                       [known |-> FALSE, days |-> 0])]

\* One call of get_recommendation_weights(user_id, account_age_days): the
\* age is the override if one is given, else what the profiles table
\* answers.
ConsultPolicy(override, stored) ==
    /\ policy.consulted < MaxConsults
    /\ LET lookup == IF override.known THEN override ELSE stored
           got == GetRecommendationWeights(policy.config, lookup)
       IN  policy' = [config |-> got.config,
                      consulted |-> policy.consulted + 1,
                      override |-> override.known,
                      lookup |-> lookup, answer |-> got.weights]
    /\ UNCHANGED nonPolicyVars
\* _get_spotify_recommendations as generate_candidates calls it: the seeds
\* are track-id strings, `t["id"]` raises inside its try and it returns [].
GetSpotifyRecommendations(seed_tracks) == <<>>

NoAgg == [pc |-> "idle", stage |-> "month_2_plus", token |-> FALSE,
          has_history |-> FALSE, candidates |-> <<>>, genres_left |-> 0,
          invoked |-> {}, failed |-> {}, result |-> <<>>,
          outcome |-> "none", returned |-> <<>>]

\* `candidates.extend(tracks)`; `returned` is the history of what the
\* calls that did not fail have answered.
Extend(ag, source, tracks) ==
    [ag EXCEPT !.candidates = @ \o From(source, tracks),
               !.returned = @ \o From(source, tracks)]

ReturnNothingAfterFailure(ag) ==
    [ag EXCEPT !.pc = "done",
               !.result = IF ag.failed = {} THEN Deduplicate(ag.candidates)
                          ELSE <<>>,
               !.outcome = "returned", !.genres_left = 0]
\* Deduplicate and return.
ReturnPool(ag) ==
    [ag EXCEPT !.pc = "done", !.result = Deduplicate(ag.candidates),
               !.outcome = "returned", !.genres_left = 0]

\* The outer `except Exception: return []`.
PropagateError(ag) ==
    [ag EXCEPT !.pc = "done", !.result = <<>>, !.outcome = "raised",
               !.genres_left = 0]
ReturnEmptyOnError(ag) ==
    [ag EXCEPT !.pc = "done", !.result = <<>>, !.outcome = "returned",
               !.genres_left = 0]

\* The popular tracks only for a pool under half the target.
NeedsPopularBySize(ag) == Len(ag.candidates) < target_count \div 2

\* `if stage == 'week_1' or len(candidates) < target_count // 2`
NeedsPopular(ag) ==
    ag.stage = "week_1" \/ Len(ag.candidates) < target_count \div 2

\* After source 3: await the popular tracks, or deduplicate and return.
AfterSources(ag) ==
    IF NeedsPopular(ag)
    THEN [ag EXCEPT !.pc = "popular", !.genres_left = 0,
                    !.invoked = @ \cup {"popular"}]
    ELSE ReturnPool(ag)

\* Source 3 is called next.
ToDiscovery(ag) ==
    [ag EXCEPT !.pc = "discovery", !.genres_left = 0,
               !.invoked = @ \cup {"discovery"}]

\* generate_candidates up to its first suspension.
BeginCandidates(token, has_history, lookup, agent_ok) ==
    LET ag0 == [NoAgg EXCEPT !.stage = StageOf(lookup), !.token = token,
                             !.has_history = has_history]
    IN  IF ~token THEN AfterSources(ag0)
        ELSE IF ~agent_ok
        THEN ReturnEmptyOnError([ag0 EXCEPT !.failed = {"agent"}])
        ELSE LET seeded == has_history /\ ag0.stage # "week_1"
             IN  [ag0 EXCEPT
                    !.pc = "top_genres",
                    !.candidates =
                        IF seeded
                        THEN From("similarity",
                                  GetSpotifyRecommendations(<<"seed">>))
                        ELSE <<>>,
                    !.invoked = (IF seeded THEN {"similarity"} ELSE {})
                                    \cup {"genre"}]

(***************************************************************************)
(* Actions of generate_candidates                                          *)
(***************************************************************************)
GenerateCandidates(token, has_history, lookup, agent_ok) ==
    /\ agg.pc \in {"idle", "done"}
    /\ agg' = BeginCandidates(token, has_history, lookup, agent_ok)
    /\ UNCHANGED nonAggVars

\* agent._get_top_genres returns n genres or raises.
TopGenres(ok, n) ==
    /\ agg.pc = "top_genres"
    /\ agg' = IF ok /\ n > 0
              THEN [agg EXCEPT !.pc = "genre", !.genres_left = Min(n, 3)]
              ELSE ToDiscovery(IF ok THEN agg
                               ELSE [agg EXCEPT !.failed = @ \cup {"genre"}])
    /\ UNCHANGED nonAggVars

\* agent.get_recommendations_by_genre returns {genre: tracks}, a dict
\* without the genre, or raises (which ends the loop over the genres).
GenreRecs(ok, has_genre, tracks) ==
    /\ agg.pc = "genre"
    /\ agg' = IF ~ok THEN ToDiscovery([agg EXCEPT !.failed = @ \cup {"genre"}])
              ELSE LET ag1 == [(IF has_genre
                                THEN Extend(agg, "genre", tracks) ELSE agg)
                                  EXCEPT !.genres_left = @ - 1]
                   IN  IF ag1.genres_left = 0 THEN ToDiscovery(ag1) ELSE ag1
    /\ UNCHANGED nonAggVars

\* agent._get_new_releases returns tracks or raises.
NewReleases(ok, tracks) ==
    /\ agg.pc = "discovery"
    /\ agg' = AfterSources(
                IF ok
                THEN Extend(agg, "discovery", tracks)
                ELSE [agg EXCEPT !.failed = @ \cup {"discovery"}])
    /\ UNCHANGED nonAggVars

\* get_popular_tracks_for_cold_start returns; deduplicate and return.
PopularTracks(ok, rows) ==
    /\ agg.pc = "popular"
    /\ agg' = ReturnPool(
                [Extend(agg, "popular",
                        GetPopularTracks(rows,
                            Min(PopularCap,
                                target_count - Len(agg.candidates)),
                            ok))
                   EXCEPT !.failed = IF ok THEN @ ELSE @ \cup {"popular"}])
    /\ UNCHANGED nonAggVars

(***************************************************************************)
(* Ranking: RecommendationScorer (recommendation_scorer.py).               *)
(* Component scores are in thousandths, final scores in ten-thousandths;   *)
(* the audio vectors are reduced to the class `audio` of a track, and the  *)
(* personality match of a track is its field `match` (in hundredths).      *)
(***************************************************************************)
MaxResults == 2        \* largest max_results asked for

WEIGHTS == [history_similarity |-> 4, personality_match |-> 4,
            diversity_bonus |-> 1, novelty_factor |-> 1]

Clip(x, lo, hi) == Max(lo, Min(hi, x))

RECURSIVE SumSeq(_)
SumSeq(xs) == IF xs = <<>> THEN 0 ELSE Head(xs) + SumSeq(Tail(xs))

\* cosine_similarity of two audio vectors; a "silent" track has every
\* feature at 0, and the cosine with a zero vector is 0.
AudioSimilarity(a, b) ==
    IF "silent" \in {a.audio, b.audio} THEN 0
    ELSE IF a.audio = b.audio THEN 1000 ELSE 600

\* np.linspace(1.0, 0.5, n), times 2 * (n - 1) (times 1 when n = 1).
DecayWeight(n, i) == IF n = 1 THEN 1 ELSE 2 * (n - 1) - (i - 1)

CalculateHistorySimilarity(candidate, listening_history) ==
    IF listening_history = <<>> THEN 500
    ELSE LET n == Len(listening_history)
             num == SumSeq([i \in 1..n |->
                       DecayWeight(n, i)
                           * AudioSimilarity(candidate, listening_history[i])])
             den == SumSeq([i \in 1..n |-> DecayWeight(n, i)])
         IN  Clip(num \div den, 0, 1000)

\* The normalised sum before the clip.
RawPersonalityMatch(candidate) == 10 * candidate.match

\* candidate.match is total_score / total_weight for the user's profile,
\* in hundredths; the distance of a normalised tempo from target_tempo =
\* 100 can take it far below 0.
CalculatePersonalityMatch(candidate) == Clip(10 * candidate.match, 0, 1000)

CalculateDiversityBonus(candidate, current_recommendations) ==
    IF current_recommendations = <<>> THEN 1000
    ELSE LET n == Len(current_recommendations)
             avg_similarity ==
                 SumSeq([i \in 1..n |->
                     AudioSimilarity(candidate, current_recommendations[i])])
                     \div n
             new_artist ==
                 \A i \in 1..n :
                     current_recommendations[i].artist_name
                         # candidate.artist_name
         IN  Clip(1000 - avg_similarity + (IF new_artist THEN 200 ELSE 0),
                  0, 1000)

\* Every track has the default popularity 50, which takes 15% off.
CalculateNoveltyFactor(candidate, listening_history) ==
    IF listening_history = <<>> THEN 800
    ELSE LET n == Len(listening_history)
         IN  IF \E i \in 1..n :
                    Identity(listening_history[i]) = Identity(candidate)
             THEN 200
             ELSE IF \A i \in 1..n : listening_history[i].artist_name
                                         # candidate.artist_name
             THEN 765
             ELSE 510

NoRlScore == [given |-> FALSE, value |-> 0]
RlScore(value) == [given |-> TRUE, value |-> value]

\* rl_adjustment = (rl_score - 0.5) * 0.1, in ten-thousandths for an
\* rl_score in thousandths.
RlAdjustment(rl_score) == rl_score.value - 500

\* The weighted sum with the adjustment added and no clamp.
AdjustWithoutClamp(candidate, listening_history, current, rl_score) ==
    LET history_sim ==
            CalculateHistorySimilarity(candidate, listening_history)
        personality_match == CalculatePersonalityMatch(candidate)
        diversity == CalculateDiversityBonus(candidate, current)
        novelty == CalculateNoveltyFactor(candidate, listening_history)
        weighted_score ==
            WEIGHTS.history_similarity * history_sim
                + WEIGHTS.personality_match * personality_match
                + WEIGHTS.diversity_bonus * diversity
                + WEIGHTS.novelty_factor * novelty
    IN  [final_score |->
             IF rl_score.given
             THEN weighted_score + RlAdjustment(rl_score)
             ELSE weighted_score,
         history_similarity |-> history_sim,
         personality_match |-> personality_match,
         diversity_bonus |-> diversity,
         novelty_factor |-> novelty,
         rl_score |-> rl_score,
         rl_adjusted |-> rl_score.given]
\* rl_score.value is in thousandths.
CalculateCompositeScore(candidate, listening_history, current, rl_score) ==
    LET history_sim ==
            CalculateHistorySimilarity(candidate, listening_history)
        personality_match == CalculatePersonalityMatch(candidate)
        diversity ==
            CalculateDiversityBonus(candidate, current)
        novelty == CalculateNoveltyFactor(candidate, listening_history)
        weighted_score ==
            WEIGHTS.history_similarity * history_sim
                + WEIGHTS.personality_match * personality_match
                + WEIGHTS.diversity_bonus * diversity
                + WEIGHTS.novelty_factor * novelty
    IN  [final_score |->
             IF rl_score.given
             THEN Clip(weighted_score + RlAdjustment(rl_score), 0, 10000)
             ELSE weighted_score,
         history_similarity |-> history_sim,
         personality_match |-> personality_match,
         diversity_bonus |-> diversity,
         novelty_factor |-> novelty,
         rl_score |-> rl_score,
         rl_adjusted |-> rl_score.given]

\* `candidate.get('rl_score')`: no source puts that key into a track.
RlScoreOf(candidate) == NoRlScore

\* One iteration of the scoring loop of rank_candidates.
ScoreOne(rk) ==
    LET candidate == rk.pool[rk.next]
        scores == CalculateCompositeScore(candidate, rk.history,
                                          rk.current, RlScoreOf(candidate))
    IN  [rk EXCEPT
           !.scored = Append(@, [track |-> candidate, scores |-> scores]),
           !.current = IF Len(@) < rk.max_results
                       THEN Append(@, candidate) ELSE @,
           !.next = @ + 1]

\* list.sort(key=final_score, reverse=True): stable, descending.
RECURSIVE InsertByScore(_, _)
InsertByScore(sorted, x) ==
    IF sorted = <<>> THEN <<x>>
    ELSE IF Head(sorted).scores.final_score >= x.scores.final_score
         THEN <<Head(sorted)>> \o InsertByScore(Tail(sorted), x)
         ELSE <<x>> \o sorted

RECURSIVE SortLoop(_, _)
SortLoop(sorted, rest) ==
    IF rest = <<>> THEN sorted
    ELSE SortLoop(InsertByScore(sorted, Head(rest)), Tail(rest))

KeepPoolOrder(scored_tracks) == scored_tracks

SortByFinalScore(scored_tracks) == SortLoop(<<>>, scored_tracks)

\* `return scored_tracks[:max_results]`
TopN(scored_tracks, max_results) ==
    SubSeq(scored_tracks, 1, Min(Len(scored_tracks), max_results))

NoRank == [pc |-> "idle", pool |-> <<>>, history |-> <<>>,
           max_results |-> 0, scored |-> <<>>, current |-> <<>>,
           next |-> 1, result |-> <<>>]

\* rank_candidates from the first iteration on, to its return.
RECURSIVE RankLoop(_)
RankLoop(rk) ==
    IF rk.next <= Len(rk.pool) THEN RankLoop(ScoreOne(rk))
    ELSE [rk EXCEPT !.pc = "done",
                    !.result = TopN(SortByFinalScore(rk.scored),
                                    rk.max_results)]

RankCandidates(candidate_tracks, listening_history, max_results) ==
    RankLoop([NoRank EXCEPT !.pc = "scoring", !.pool = candidate_tracks,
                            !.history = listening_history,
                            !.max_results = max_results])

\* Deduplicated pools and listening histories the scorer is given.
Pools == {Deduplicate(a \o b) : a, b \in ReturnLists}
Histories == {<<>>, <<Ta>>, <<Tb, Tc>>, <<Tc, Tc, Ta>>}

(***************************************************************************)
(* Actions of rank_candidates                                              *)
(***************************************************************************)
StartRank(pool, history, max_results) ==
    /\ rank.pc \in {"idle", "done"}
    /\ rank' = [NoRank EXCEPT !.pc = "scoring", !.pool = pool,
                              !.history = history,
                              !.max_results = max_results]
    /\ UNCHANGED nonRankVars

ScoreCandidate ==
    /\ rank.pc = "scoring"
    /\ rank.next <= Len(rank.pool)
    /\ rank' = ScoreOne(rank)
    /\ UNCHANGED nonRankVars

SortAndReturn ==
    /\ rank.pc = "scoring"
    /\ rank.next > Len(rank.pool)
    /\ rank' = RankLoop(rank)
    /\ UNCHANGED nonRankVars

\* One call of calculate_composite_score by itself.
CompositeScore(candidate, listening_history, current, rl_score) ==
    /\ rank' = [NoRank EXCEPT
                  !.pc = "scored", !.pool = <<candidate>>,
                  !.history = listening_history, !.current = current,
                  !.scored =
                     <<[track |-> candidate,
                        scores |-> CalculateCompositeScore(
                                       candidate, listening_history,
                                       current, rl_score)]>>]
    /\ UNCHANGED nonRankVars

(***************************************************************************)
(* The pipeline: MusicRecommendationService.generate_recommendations       *)
(***************************************************************************)
RECOMMENDATIONS_TTL == 2   \* scaled down from 86400
MaxCalls == 2           \* requests and feedback events per run

ServiceUser == "u1"
MoreCalls == req.calls + rl.feedbacks + route.calls < MaxCalls
\* f'recommendations_{user_id}' with user_id=user_id
RecommendationsKey(user_id) == MakeKey("recommendations", user_id)

\* Python truth value of what the cache returned.
Truthy(v) ==
    CASE v.type = "None" -> FALSE
      [] v.type = "int" -> v.val[1] # 0
      [] OTHER -> v.val # <<>>

\* metadata['cold_start_weights'] of a response, the weight set of its stage.
ColdStartWeights(stage) ==
    IF stage \in DOMAIN COLD_START_WEIGHTS THEN COLD_START_WEIGHTS[stage]
    ELSE <<>>

\* metadata['scoring_weights'] is the scorer's class attribute, the weights
\* calculate_composite_score multiplies the components by.
Response(success, error, recommendations, stage) ==
    [success |-> success, error |-> error,
     recommendations |-> recommendations,
     total_count |-> Len(recommendations), stage |-> stage,
     scoring_weights |-> WEIGHTS,
     cold_start_weights |-> ColdStartWeights(stage),
     from_cache |-> FALSE]

NoResponse == Response(FALSE, "none", <<>>, "none")
NoCandidatesResponse == Response(FALSE, "No candidates available", <<>>, "none")
\* The outer `except Exception` of generate_recommendations.
ErrorResponse == Response(FALSE, "exception", <<>>, "none")

NoReq == [pc |-> "idle", token |-> FALSE, force_refresh |-> FALSE,
          max_results |-> 0, history |-> <<>>, failed |-> {},
          response |-> NoResponse, outcome |-> "none", calls |-> 0]

ReturnResponse(rq, response) ==
    [rq EXCEPT !.pc = "done", !.response = response, !.outcome = "returned"]

FailWhenCacheDown(rq, cached) ==
    IF ~cached.ok /\ ~rq.force_refresh THEN ReturnResponse(rq, ErrorResponse)
    ELSE [rq EXCEPT !.pc = IF rq.token THEN "refresh" ELSE "history"]
\* Step 1: the cache check, up to the first await.
BeginRecommendations(rq, cached) ==
    IF ~rq.force_refresh /\ Truthy(cached.out)
    THEN IF cached.out.type = "dict"
         THEN ReturnResponse(rq, [cached.out.val[1] EXCEPT !.from_cache = TRUE])
         ELSE ReturnResponse([rq EXCEPT !.failed = @ \cup {"cached_value"}],
                             ErrorResponse)
    ELSE [rq EXCEPT !.pc = IF rq.token THEN "refresh" ELSE "history"]

\* `{**track, 'recommendation_scores': scores}` for each ranked pair.
Recommendations(scored_recommendations) == scored_recommendations

(***************************************************************************)
(* Actions of generate_recommendations                                     *)
(***************************************************************************)
GenerateRecommendations(token, force_refresh, max_results) ==
    /\ MoreCalls
    /\ req.pc \in {"idle", "done"}
    /\ agg.pc \in {"idle", "done"}
    /\ LET rq == [NoReq EXCEPT !.token = token,
                               !.force_refresh = force_refresh,
                               !.max_results = max_results,
                               !.calls = req.calls + 1]
           cached == RedisCacheGet(redis, redisUp, stats,
                                   RecommendationsKey(ServiceUser))
       IN  /\ req' = BeginRecommendations(rq, cached)
           /\ stats' = IF force_refresh THEN stats ELSE cached.stats
    /\ UNCHANGED <<agg, rank, redis, outsideService>>

\* refresh_listening_history returns True or, on any error, False; the
\* answer is not looked at.
RefreshReturns ==
    /\ req.pc = "refresh"
    /\ req' = [req EXCEPT !.pc = "history"]
    /\ UNCHANGED <<agg, rank, redis, stats, outsideService>>

\* get_user_top_50_tracks returns the rows or, on any error, [].
HistoryReturns(ok, rows) ==
    /\ req.pc = "history"
    /\ req' = [req EXCEPT !.pc = "profile",
                          !.history = IF ok THEN rows ELSE <<>>]
    /\ UNCHANGED <<agg, rank, redis, stats, outsideService>>

\* get_personality_profile returns the profile or, on any error, the
\* defaults; then generate_candidates runs up to its first suspension.
ProfileReturns(lookup, agent_ok) ==
    /\ req.pc = "profile"
    /\ req' = [req EXCEPT !.pc = "candidates"]
    /\ agg' = BeginCandidates(req.token, req.history # <<>>, lookup,
                              agent_ok)
    /\ UNCHANGED <<rank, redis, stats, outsideService>>

\* generate_candidates has returned: steps 5 and 6 up to the return, after
\* which the frames of both calls are gone.
CandidatesReturn(db_ok) ==
    /\ req.pc = "candidates"
    /\ agg.pc = "done"
    /\ IF agg.outcome = "raised"
       THEN /\ req' = ReturnResponse(
                        [req EXCEPT !.failed = @ \cup {"candidates"}],
                        ErrorResponse)
            /\ UNCHANGED <<redis, stats>>
       ELSE IF agg.result = <<>>
       THEN /\ req' = ReturnResponse(
                        [req EXCEPT
                           !.failed = @ \cup (agg.failed \cap {"agent"})],
                        NoCandidatesResponse)
            /\ UNCHANGED <<redis, stats>>
       ELSE LET ranked == RankCandidates(agg.result, req.history,
                                         req.max_results)
                recommendations == Recommendations(ranked.result)
                result == Response(TRUE, "", recommendations, agg.stage)
                stored == RedisCacheSet(redis, redisUp, stats,
                                        RecommendationsKey(ServiceUser),
                                        PyDict(result), RECOMMENDATIONS_TTL)
                \* the insert fails when db_ok is FALSE or the averages
                \* divide by len(recommendations) = 0; either is logged
            IN  /\ redis' = stored.store
                /\ stats' = stored.stats
                /\ req' = ReturnResponse(req, result)
    /\ agg' = NoAgg
    /\ rank' = NoRank
    /\ UNCHANGED outsideService

(***************************************************************************)
(* The learning engine: MusicRecommendationRL (music_recommendation_rl.py) *)
(* Rewards and Q-values are integers in units of 1 / (100 * 10^MaxCalls),  *)
(* fine enough for MaxCalls updates of one Q-value to stay exact.          *)
(***************************************************************************)
RECURSIVE Factorial(_)
Factorial(n) == IF n <= 1 THEN 1 ELSE n * Factorial(n - 1)

\* Rewards, Q-values and bonuses are counted in hundredths, each split
\* finely enough that multiplying by the learning rate MaxCalls times and
\* dividing a total by a count of at most MaxCalls stay exact.
Hundredths(n) == n * Pow10(MaxCalls) * Factorial(MaxCalls)

FeedbackTypes == {"like", "dislike", "play", "skip", "save",
                  "add_to_playlist", "repeat", "share"}
reward_map ==
    [f \in FeedbackTypes |->
        CASE f = "like" -> Hundredths(100)
          [] f = "dislike" -> Hundredths(-100)
          [] f = "play" -> Hundredths(80)
          [] f = "skip" -> Hundredths(-40)
          [] f = "save" -> Hundredths(150)
          [] f = "add_to_playlist" -> Hundredths(180)
          [] f = "repeat" -> Hundredths(120)
          [] f = "share" -> Hundredths(130)]

Genres == {"pop", "Pop", "rock"}

\* music_data: the genre and the energy (in tenths) of a song; the other
\* audio features are left at their defaults.
Song(genre, energy) == [genre |-> genre, energy |-> energy]

\* additional_data: None, or listen_duration and track_duration.
NoAdditional == [given |-> FALSE, listen_duration |-> 0, track_duration |-> 0]
Additional(listen_duration, track_duration) ==
    [given |-> TRUE, listen_duration |-> listen_duration,
     track_duration |-> track_duration]

\* _calculate_reward; raised = TRUE is the ZeroDivisionError of
\* listen_duration / track_duration.
CalculateReward(feedback_type, additional_data) ==
    LET base_reward == IF feedback_type \in FeedbackTypes
                       THEN reward_map[feedback_type] ELSE 0
    IN  IF ~additional_data.given
        THEN [raised |-> FALSE, value |-> base_reward]
        ELSE IF additional_data.track_duration = 0
        THEN [raised |-> TRUE, value |-> 0]
        ELSE LET l == additional_data.listen_duration
                 t == additional_data.track_duration
             IN  [raised |-> FALSE,
                  value |-> base_reward
                      + (IF 10 * l > 9 * t THEN Hundredths(40)
                         ELSE IF 10 * l < 2 * t THEN Hundredths(-30)
                         ELSE IF 10 * l > 5 * t THEN Hundredths(20)
                         ELSE 0)]

\* genre.replace(' ', '_').lower()
GenreTag(genre) == IF genre = "Pop" THEN "pop" ELSE genre

EnergyLevel(energy) ==
    IF 10 * energy < 33 THEN "energy_low"
    ELSE IF 10 * energy < 67 THEN "energy_med"
    ELSE "energy_high"

\* _extract_state_features: the joined, sorted list of discretized features.
\* With the profile and the other audio features fixed, the string is
\* given by the energy level and the genre tag.
ExtractStateFeatures(music_data) ==
    [energy |-> EnergyLevel(music_data.energy),
     genre |-> GenreTag(music_data.genre)]

\* The key f"{state}_{action}" of the Q-table.
QKey(state, action) == <<state, action>>

\* _get_q_value: q_table.get(key, 0.0)
GetQValue(q_table, state, action) ==
    IF QKey(state, action) \in DOMAIN q_table
    THEN q_table[QKey(state, action)] ELSE 0

\* _set_q_value: q_table[key] = value
SetQValue(q_table, state, action, value) ==
    [k \in DOMAIN q_table \cup {QKey(state, action)} |->
        IF k = QKey(state, action) THEN value ELSE q_table[k]]

\* A step that forgets the value held before.
LearnFromZero(current_q, reward) == reward \div 10

\* The Q-learning step with learning_rate = 0.1.
Learn(current_q, reward) == current_q + (reward - current_q) \div 10

\* _update_q_value: the new table and the value returned.
UpdateQValue(q_table, state, reward) ==
    LET current_q == GetQValue(q_table, state, "recommend")
        new_q == Learn(current_q, reward)
    IN  [q_table |-> SetQValue(q_table, state, "recommend", new_q),
         value |-> new_q]

NewGenre == [total_reward |-> 0, count |-> 0, avg_reward |-> 0]

UpdateGenrePerformance(genre_performance, genre, reward) ==
    LET started == IF genre \in DOMAIN genre_performance
                   THEN genre_performance
                   ELSE [g \in DOMAIN genre_performance \cup {genre} |->
                            IF g = genre THEN NewGenre
                            ELSE genre_performance[g]]
        total_reward == started[genre].total_reward + reward
        count == started[genre].count + 1
    IN  [started EXCEPT ![genre] =
            [total_reward |-> total_reward, count |-> count,
             avg_reward |-> total_reward \div count]]

\* _get_genre_bonus: max(-0.2, min(0.2, avg_reward * 0.2))
GetGenreBonus(genre_performance, genre) ==
    IF genre \notin DOMAIN genre_performance THEN 0
    ELSE Max(Hundredths(-20),
             Min(Hundredths(20),
                 (genre_performance[genre].avg_reward * 2) \div 10))

\* Keywords of RLSupabaseStorage.store_music_interaction and those
\* process_feedback passes; a keyword the function does not have is a
\* TypeError at the call.
StoreParameters == {"song_data", "interaction_type", "rl_reward", "q_value",
                    "state_features", "personality_snapshot"}
StoreKeywords == {"track_id", "action", "reward", "confidence",
                  "track_features"}
StoreCallAccepted == StoreKeywords \subseteq StoreParameters

\* Thresholds of the periodic batch learning.
BatchAt == 3           \* scaled down from 32
BatchEvery == 2        \* scaled down from 10
MinBatch == 2          \* scaled down from 16

\* The exploration rate, in units of 10^-7: 0.1 at construction, and the
\* decay `max(0.01, self.epsilon * 0.995)` of _batch_learning.
EpsilonUnits == Pow10(7)
InitialEpsilon == EpsilonUnits \div 10
EpsilonFloor == EpsilonUnits \div 100
DecayEpsilon(epsilon) == Max(EpsilonFloor, (epsilon * 995) \div 1000)

\* The loop of _batch_learning over the sampled experiences.
RECURSIVE BatchLoop(_, _)
BatchLoop(q_table, batch) ==
    IF batch = <<>> THEN q_table
    ELSE LET e == Head(batch)
             current_q == GetQValue(q_table, e.state, e.action)
         IN  BatchLoop(SetQValue(q_table, e.state, e.action,
                                 Learn(current_q, e.reward)),
                       Tail(batch))

\* _batch_learning; draw is the answer of np.random.choice, positions of
\* the experience buffer in the order they were drawn.
BatchLearning(learner, draw) ==
    IF Len(learner.experience_buffer) < MinBatch THEN learner
    ELSE LET batch == [i \in 1..Len(draw) |->
                          learner.experience_buffer[draw[i]]]
         IN  [learner EXCEPT !.q_table = BatchLoop(@, batch),
                             !.epsilon = DecayEpsilon(@),
                             !.replays = @ + 1]

\* experience_buffer = deque(maxlen=10000): append drops the oldest
\* experience of a full buffer.
BufferCapacity == 2    \* scaled down from 10000
AppendExperience(experience_buffer, experience) ==
    IF Len(experience_buffer) >= BufferCapacity
    THEN Append(Tail(experience_buffer), experience)
    ELSE Append(experience_buffer, experience)

NoReturn == [outcome |-> "none", value |-> 0, failed |-> {}]
NewLearner ==
    [q_table |-> <<>>, genre_performance |-> <<>>,
     experience_buffer |-> <<>>, training_episodes |-> 0, total_reward |-> 0,
     epsilon |-> InitialEpsilon, replays |-> 0,
     feedbacks |-> 0, run |-> [genre |-> "", likes |-> 0], ret |-> NoReturn]

\* The `except Exception: return 0.0` of process_feedback.
ReturnZeroOnError(learner, what) ==
    [learner EXCEPT !.ret = [outcome |-> "returned", value |-> 0,
                             failed |-> {what}]]

\* A process_feedback that buffers every experience and replays the
\* buffer in the order the random generator drew.
ReplayDrawn(learner, music_data, feedback_type, additional_data, draw) ==
    LET state == ExtractStateFeatures(music_data)
        reward == CalculateReward(feedback_type, additional_data)
    IN  IF reward.raised THEN ReturnZeroOnError(learner, "reward")
        ELSE LET update == UpdateQValue(learner.q_table, state, reward.value)
                 experience == [state |-> state, action |-> "recommend",
                                reward |-> reward.value]
                 counted ==
                     [learner EXCEPT
                        !.q_table = update.q_table,
                        !.experience_buffer = Append(@, experience),
                        !.training_episodes = @ + 1,
                        !.ret = [outcome |-> "returned",
                                 value |-> update.value, failed |-> {}]]
             IN  IF Len(counted.experience_buffer) < Len(draw) THEN counted
                 ELSE [counted EXCEPT
                         !.q_table =
                            BatchLoop(@, [i \in 1..Len(draw) |->
                                     counted.experience_buffer[draw[i]]])]

ProcessFeedbackOn(learner, music_data, feedback_type, additional_data, draw) ==
    LET state == ExtractStateFeatures(music_data)
        reward == CalculateReward(feedback_type, additional_data)
    IN  IF reward.raised THEN ReturnZeroOnError(learner, "reward")
        ELSE LET update == UpdateQValue(learner.q_table, state, reward.value)
                 updated ==
                     [learner EXCEPT
                        !.q_table = update.q_table,
                        !.genre_performance =
                            UpdateGenrePerformance(@, music_data.genre,
                                                   reward.value)]
                 experience == [state |-> state, action |-> "recommend",
                                reward |-> reward.value]
                 counted ==
                     [updated EXCEPT
                        !.experience_buffer =
                            AppendExperience(@, experience),
                        !.total_reward = @ + reward.value,
                        !.training_episodes = @ + 1]
                 batched ==
                     IF /\ Len(counted.experience_buffer) >= BatchAt
                        /\ counted.training_episodes % BatchEvery = 0
                     THEN BatchLearning(counted, draw) ELSE counted
             IN  IF ~StoreCallAccepted
                 THEN ReturnZeroOnError(updated, "storage")
                 ELSE [batched EXCEPT
                         !.ret = [outcome |-> "returned",
                                  value |-> update.value, failed |-> {}]]

\* The score get_recommendation_scores gives one song; explore and
\* exploration_bonus are the answers of the random generator.
GetRecommendationScore(learner, song, explore, exploration_bonus) ==
    LET q_value == GetQValue(learner.q_table, ExtractStateFeatures(song),
                             "recommend")
        genre_bonus == GetGenreBonus(learner.genre_performance, song.genre)
    IN  IF explore THEN q_value + genre_bonus + exploration_bonus
        ELSE q_value + genre_bonus

\* get_learning_statistics, the fields the routes and the claims read.
GetLearningStatistics(learner) ==
    [training_episodes |-> learner.training_episodes,
     q_table_size |-> Cardinality(DOMAIN learner.q_table),
     genre_performance |-> learner.genre_performance]

\* Answers of np.random.choice the model draws from.
Draws == {<<1, 2>>, <<2, 1>>}

(***************************************************************************)
(* Action of the learning engine                                           *)
(***************************************************************************)
\* The instance after one process_feedback call, with its history: the
\* number of calls so far and the run of consecutive likes of one genre.
AfterFeedback(learner, music_data, feedback_type, additional_data, draw) ==
    [ProcessFeedbackOn(learner, music_data, feedback_type, additional_data,
                       draw)
        EXCEPT !.feedbacks = @ + 1,
               !.run = IF feedback_type # "like"
                       THEN [genre |-> "", likes |-> 0]
                       ELSE IF music_data.genre = @.genre
                       THEN [@ EXCEPT !.likes = @ + 1]
                       ELSE [genre |-> music_data.genre, likes |-> 1]]

\* One process_feedback call on the instance.
ProcessFeedback(music_data, feedback_type, additional_data, draw) ==
    /\ MoreCalls
    /\ rl' = AfterFeedback(rl, music_data, feedback_type, additional_data,
                           draw)
    /\ UNCHANGED nonLearnerVars

(***************************************************************************)
(* The feedback and insights routes (api/routes/agents.py)                 *)
(***************************************************************************)
\* MusicIntelligenceAgent.__init__: every agent builds its own learning
\* engine, and nothing reads an earlier one's tables.
NewAgent == [rl_system |-> NewLearner]

NoRoute ==
    [pc |-> "idle", calls |-> 0, acknowledged |-> 0, song |-> Song("", 0),
     written |-> NewLearner, rl_stats |-> GetLearningStatistics(NewLearner),
     insights |-> GetLearningStatistics(NewLearner)]

\* process_user_feedback: True unless the engine's call raised.
ProcessUserFeedback(agent, song_data, feedback_type, additional_data, draw) ==
    LET learner == ProcessFeedbackOn(agent.rl_system, song_data,
                                     feedback_type, additional_data, draw)
    IN  [agent |-> [agent EXCEPT !.rl_system = learner],
         success |-> learner.ret.outcome # "raised"]

\* record_music_feedback: 400 without a feedback type, 500 when the agent
\* reports failure, else the acknowledgement with the agent's statistics.
RecordMusicFeedback(song_data, feedback_type, additional_data, draw) ==
    /\ MoreCalls
    /\ IF feedback_type = ""
       THEN route' = [route EXCEPT !.pc = "bad_request", !.calls = @ + 1]
       ELSE LET music_agent == NewAgent
                processed == ProcessUserFeedback(music_agent, song_data,
                                                 feedback_type,
                                                 additional_data, draw)
            IN  IF ~processed.success
                THEN route' = [route EXCEPT !.pc = "error", !.calls = @ + 1]
                ELSE route' =
                        [route EXCEPT
                           !.pc = "recorded", !.calls = @ + 1,
                           !.acknowledged = @ + 1,
                           !.song = song_data,
                           !.written = processed.agent.rl_system,
                           !.rl_stats = GetLearningStatistics(
                                            processed.agent.rl_system)]
    /\ UNCHANGED nonRouteVars

\* get_music_insights: the statistics of a newly built agent.
GetMusicInsights ==
    /\ MoreCalls
    /\ LET music_agent == NewAgent
       IN  route' = [route EXCEPT
                        !.pc = "insights", !.calls = @ + 1,
                        !.insights =
                            GetLearningStatistics(music_agent.rl_system)]
    /\ UNCHANGED nonRouteVars

InitPipeline ==
    /\ agg = NoAgg
    /\ rank = NoRank
    /\ req = NoReq
    /\ rl = NewLearner
    /\ route = NoRoute
    /\ policy = NoPolicy

(***************************************************************************)
(* Specifications                                                          *)
(***************************************************************************)
InitLimiter ==
    /\ bucket = [b \in Buckets |-> NewBucket(b)]
    /\ task = [t \in Tasks |-> NoTask]

Init ==
    /\ now = 0
    /\ InitLimiter
    /\ use_redis = TRUE
    /\ InitCache
    /\ InitUser
    /\ InitPipeline

InitEitherCache ==
    /\ now = 0
    /\ InitLimiter
    /\ use_redis \in BOOLEAN
    /\ InitCache
    /\ InitUser
    /\ InitPipeline

\* Coroutines calling acquire_for_endpoint directly.
NextAcquire ==
    \/ \E t \in Tasks, e \in Endpoints : StartAcquire(t, e, HalfTimeout)
    \/ \E t \in Tasks : Wake(t)
    \/ Tick

SpecAcquire == Init /\ [][NextAcquire]_vars

\* Coroutines calling rate_limited_call.
NextCall ==
    \/ \E t \in Callers, e \in DOMAIN ENDPOINT_LIMITS, m \in {0, MaxRetries} :
          StartCall(t, e, m)
    \/ \E t \in Tasks : Wake(t)
    \/ \E t \in Tasks, o \in UpstreamOutcomes : UpstreamReturn(t, o)
    \/ \E t \in Tasks : BackoffWake(t)
    \/ Tick

\* rate_limited_call runs beside other traffic: each bucket starts either
\* full or drained, as acquire_for_endpoint calls leave it.
InitCall ==
    /\ now = 0
    /\ \E full \in SUBSET Buckets :
          bucket = [b \in Buckets |->
                      IF b \in full THEN NewBucket(b)
                      ELSE [NewBucket(b) EXCEPT !.tokens = 0]]
    /\ task = [t \in Tasks |-> NoTask]
    /\ use_redis = TRUE
    /\ InitCache
    /\ InitUser
    /\ InitPipeline

SpecCall == InitCall /\ [][NextCall]_vars

\* RedisCache and CacheManager used side by side.
NextCache ==
    \/ \E k \in CacheKeys, v \in Values, ttl \in TTLArgs : RedisSet(k, v, ttl)
    \/ \E k \in CacheKeys : RedisGet(k)
    \/ \E k \in CacheKeys : RedisDelete(k)
    \/ \E k \in CacheKeys, v \in Values, ttl \in TTLArgs : MemorySet(k, v, ttl)
    \/ \E k \in CacheKeys : MemoryGet(k)
    \/ \E k \in CacheKeys : MemoryInvalidate(k)
    \/ ClearExpired
    \/ RedisDown
    \/ RedisBack
    \/ CacheTick

SpecCache == InitEitherCache /\ [][NextCache]_vars

\* Replicas of the per-user limiter, all with Redis or all without.
NextUser ==
    \/ \E r \in Replicas, u \in Identities : CheckMemory(r, u)
    \/ \E r \in Replicas, u \in Identities : CheckGet(r, u)
    \/ \E r \in Replicas : CheckIncrement(r)
    \/ \E r \in Replicas : CheckSet(r)
    \/ RedisDown
    \/ RedisBack
    \/ UserTick

SpecUser == InitEitherCache /\ [][NextUser]_vars

\* The same replicas on a clock that does not stop before MaxUserTime: time
\* passes whatever the callers do.
SpecUserIdle == SpecUser /\ WF_vars(UserTick)

\* Calls of generate_candidates, one after the other.
NextCandidates ==
    \/ \E token, has_history, agent_ok \in BOOLEAN, lookup \in AgeLookups :
          GenerateCandidates(token, has_history, lookup, agent_ok)
    \/ \E ok \in BOOLEAN, n \in 0..MaxGenres : TopGenres(ok, n)
    \/ \E ok, has_genre \in BOOLEAN, tracks \in ReturnLists :
          GenreRecs(ok, has_genre, tracks)
    \/ \E ok \in BOOLEAN, tracks \in ReturnLists : NewReleases(ok, tracks)
    \/ \E ok \in BOOLEAN, rows \in ReturnLists : PopularTracks(ok, rows)

SpecCandidates == Init /\ [][NextCandidates]_vars

\* Calls of rank_candidates, one after the other.
NextRank ==
    \/ \E pool \in Pools, history \in Histories, m \in 0..MaxResults :
          StartRank(pool, history, m)
    \/ ScoreCandidate
    \/ SortAndReturn

SpecRank == Init /\ [][NextRank]_vars

\* Calls of calculate_composite_score on tracks, histories, selections and
\* learned values (in thousandths) that reach both ends of every clip.
Tlow == Track("d", "", -4900, "silent", "z")
Thigh == Track("e", "", 150, "loud", "z")
ScoreTracks == {Ta, Tb, Tc, Tlow, Thigh}
ScoreHistories == Histories \cup {<<Thigh>>, <<Tlow, Ta>>}
ScoreSelections == {<<>>, <<Ta>>, <<Tb, Tc>>, <<Tlow>>}
RlValues == {-3000, -300, 0, 500, 565, 3000}

NextScore ==
    \E candidate \in ScoreTracks, listening_history \in ScoreHistories,
       current \in ScoreSelections,
       rl_score \in {NoRlScore} \cup {RlScore(v) : v \in RlValues} :
       CompositeScore(candidate, listening_history, current, rl_score)

SpecScore == Init /\ [][NextScore]_vars

\* Consultations of the cold-start policy for accounts of every age from
\* one day in the future to MaxAge days, and for accounts of unknown age.
PolicyLookups ==
    {[known |-> TRUE, days |-> d] : d \in -1..MaxAge}
        \cup {[known |-> FALSE, days |-> 0]}

NextPolicy ==
    \E override \in PolicyLookups, stored \in AgeLookups :
       ConsultPolicy(override, stored)

SpecPolicy == Init /\ [][NextPolicy]_vars

\* Requests for recommendations and feedback events of one user, with the
\* Redis server going down and coming back.  Every collaborator either
\* fails or gives one fixed answer.
FeedbackSamples ==
    {<<"pop", "like", Additional(1, 0)>>, <<"rock", "skip", Additional(1, 1)>>}
ServiceHistories == {<<>>, <<Ta>>}
ServiceLookups == {l \in AgeLookups : l.known => l.days = 7}

NextService ==
    \/ \E token, force_refresh \in BOOLEAN :
          GenerateRecommendations(token, force_refresh, MaxResults)
    \/ RefreshReturns
    \/ \E ok \in BOOLEAN, rows \in ServiceHistories : HistoryReturns(ok, rows)
    \/ \E agent_ok \in BOOLEAN, lookup \in ServiceLookups :
          ProfileReturns(lookup, agent_ok)
    \/ \E ok \in BOOLEAN : TopGenres(ok, 1)
    \/ \E ok \in BOOLEAN : GenreRecs(ok, TRUE, <<TaById, Tb>>)
    \/ \E ok \in BOOLEAN : NewReleases(ok, <<Tb, Tc>>)
    \/ \E ok \in BOOLEAN : PopularTracks(ok, <<Ta, Tc>>)
    \/ \E db_ok \in BOOLEAN : CandidatesReturn(db_ok)
    \/ \E s \in FeedbackSamples :
          ProcessFeedback(Song(s[1], 5), s[2], s[3], <<>>)
    \/ RedisDown
    \/ RedisBack

SpecService == Init /\ [][NextService]_vars

\* Feedback events fed to one learning engine, and requests to the
\* feedback and insights routes.
LearnerSongs == {Song("pop", 5), Song("Pop", 5), Song("pop", 8), Song("rock", 5)}
LearnerFeedback == {"like", "dislike", "save", ""}
LearnerAdditional == {NoAdditional, Additional(1, 1), Additional(1, 0)}
RouteSamples ==
    {<<Song("pop", 5), "like", NoAdditional>>,
     <<Song("rock", 5), "dislike", Additional(1, 1)>>,
     <<Song("pop", 5), "like", Additional(1, 0)>>,
     <<Song("pop", 5), "", NoAdditional>>}

NextLearner ==
    \/ \E song \in LearnerSongs, f \in LearnerFeedback,
          a \in LearnerAdditional, draw \in Draws :
          ProcessFeedback(song, f, a, draw)
    \/ \E s \in RouteSamples, draw \in Draws :
          RecordMusicFeedback(s[1], s[2], s[3], draw)
    \/ GetMusicInsights

SpecLearner == Init /\ [][NextLearner]_vars

(***************************************************************************)
(* Claims about the token buckets (SpecAcquire)                            *)
(***************************************************************************)

\* C3: in every reachable state, whatever acquire calls and refills have
\* happened, each bucket's token count is within [0, burst_capacity].
C3_TokensWithinBurst ==
    \A b \in Buckets :
        /\ bucket[b].tokens >= 0
        /\ bucket[b].tokens <= Config(b).burst * TokenUnit

\* C3 witness: a bucket that has been refilled after time passed and has
\* granted more requests than its burst capacity.
C3_Witness ==
    \E b \in Buckets :
        /\ bucket[b].last_refill > 0
        /\ bucket[b].total_requests > Config(b).burst

\* C4: acquire_for_endpoint returns granted only if this call took a token
\* from the global bucket and a token from the bucket of the endpoint.
C4_GrantedTookBoth ==
    /\ \A t \in Tasks :
          task[t].result = "granted" =>
              task[t].taken = {"global", LimiterFor(task[t].endpoint)}
    /\ \A b \in Buckets \ {"global"} :
          Cardinality({t \in Tasks : /\ task[t].result = "granted"
                                     /\ LimiterFor(task[t].endpoint) = b})
              <= bucket[b].total_requests

\* C4 witness: one call granted through the fallback bucket of an unknown
\* endpoint, another denied although the global bucket had granted it.
C4_Witness ==
    \E t, u \in Tasks :
        /\ task[t].result = "granted"
        /\ task[t].endpoint = "unknown"
        /\ task[u].result = "denied"
        /\ task[u].taken = {"global"}

\* C5: with no time elapsed since the bucket was full, the number of granted
\* acquire calls is the number of calls, up to burst_capacity and no more;
\* a further call is granted only once refill has added a token.
C5_BurstThenRefill ==
    \A b \in Buckets :
        /\ now = 0 =>
              bucket[b].total_requests = Min(bucket[b].calls, Config(b).burst)
        /\ bucket[b].total_requests * TokenUnit
              <= Config(b).burst * TokenUnit + Config(b).rate * now

\* C5 witness: burst+1 calls on the full global bucket at time 0, burst of
\* them granted, the remaining one waiting.
C5_Witness ==
    /\ now = 0
    /\ bucket["global"].calls = BurstGlobal + 1
    /\ bucket["global"].total_requests = BurstGlobal
    /\ \E t \in Tasks : task[t].pc = "sleep" /\ task[t].stage = "global"

\* C6: acquire returns false only when its timeout has elapsed without a
\* token becoming available: no call is denied while a token that was in
\* the bucket before the deadline is still there.
C6_DeniedOnlyWithoutToken ==
    \A t \in Tasks : task[t].result = "denied" => ~task[t].missed

(***************************************************************************)
(* Claims about rate_limited_call (SpecCall)                               *)
(***************************************************************************)

\* C7: rate_limited_call invokes the operation at most max_retries + 1
\* times, each time right after a granted acquire_for_endpoint, and ends
\* with the operation's result or with None; it never raises.
C7_BoundedRetriesNoRaise ==
    \A t \in Callers :
        /\ task[t].invocations <= task[t].max_retries + 1
        /\ task[t].invocations <= task[t].attempt + 1
        /\ task[t].pc = "upstream" =>
              task[t].taken = {"global", LimiterFor(task[t].endpoint)}
        /\ task[t].pc = "done" => task[t].result \in {"ok", "unavailable"}

\* C7 witness: every one of the max_retries + 1 attempts failed and the
\* call returned None.
C7_Witness ==
    \E t \in Callers :
        /\ task[t].pc = "done"
        /\ task[t].result = "unavailable"
        /\ task[t].max_retries = MaxRetries
        /\ task[t].invocations = MaxRetries + 1

(***************************************************************************)
(* Claims about the caches (SpecCache)                                     *)
(***************************************************************************)

\* C8: a get answered by the store after set(key, value, ttl), with no
\* write to the key in between, returns the very value that was stored if
\* the ttl has not elapsed, and a miss from the expiry instant on.
C8_CacheRoundTrip ==
    (lastOp.op = "get" /\ lastOp.ok) =>
        LET w == written[lastOp.key]
        IN  (w.set /\ w.ttl > 0) =>
                IF lastOp.at < w.at + w.ttl
                THEN lastOp.out = w.value
                ELSE lastOp.out = None

(***************************************************************************)
(* Claims about the per-user limiter (SpecUser)                            *)
(***************************************************************************)
RECURSIVE SumTimes(_, _, _, _)
SumTimes(hist, r, u, ts) ==
    IF ts = {} THEN 0
    ELSE LET t == CHOOSE x \in ts : TRUE
         IN  hist[r][u][t] + SumTimes(hist, r, u, ts \ {t})

RECURSIVE AllowedIn(_, _, _)
AllowedIn(rs, u, ts) ==
    IF rs = {} THEN 0
    ELSE LET r == CHOOSE x \in rs : TRUE
         IN  SumTimes(allowed, r, u, ts) + AllowedIn(rs \ {r}, u, ts)

Window(w) == {t \in UserTimes : w <= t /\ t < w + window_seconds}

\* C9: for every identity and every window of window_seconds, the calls
\* answered allowed inside the window number at most requests_per_minute:
\* over all replicas together when they share the Redis counter, and on
\* each replica in the in-memory mode.
C9_WindowCeiling ==
    \A u \in Users, w \in UserTimes :
        IF use_redis
        THEN AllowedIn(Replicas, u, Window(w)) <= requests_per_minute
        ELSE \A r \in Replicas :
                AllowedIn({r}, u, Window(w)) <= requests_per_minute

(***************************************************************************)
(* Claims about generate_candidates (SpecCandidates)                       *)
(***************************************************************************)
\* Positions of the merged list holding the first entry of an identity.
FirstPositions(merged) ==
    {i \in 1..Len(merged) :
        /\ Identity(merged[i]) # ""
        /\ \A j \in 1..(i - 1) : Identity(merged[j]) # Identity(merged[i])}

\* C1: the pool returned by generate_candidates holds no two entries with
\* the same track identity (track_id, or id when track_id is absent); it
\* is the merged list of all sources reduced, once, to the first entry of
\* every identity, in merge order.
C1_PoolDeduplicated ==
    agg.pc = "done" =>
        /\ \A i, j \in 1..Len(agg.result) :
              Identity(agg.result[i]) = Identity(agg.result[j]) => i = j
        /\ agg.failed # {"agent"} =>
              /\ Len(agg.result) = Cardinality(FirstPositions(agg.candidates))
              /\ \A k \in 1..Len(agg.result) :
                    \E i \in FirstPositions(agg.candidates) :
                        /\ agg.result[k] = agg.candidates[i]
                        /\ Cardinality({j \in FirstPositions(agg.candidates) :
                                           j <= i}) = k

\* C1 witness: two sources returned the same identity, once under track_id
\* and once under id, and the pool kept the earlier entry only.
C1_Witness ==
    /\ agg.pc = "done"
    /\ \E i, j \in 1..Len(agg.candidates) :
          /\ i < j
          /\ agg.candidates[i].source # agg.candidates[j].source
          /\ agg.candidates[i].track_id = ""
          /\ agg.candidates[j].track_id = agg.candidates[i].id
          /\ agg.candidates[i] = agg.result[1]
    /\ Len(agg.result) >= 2
    /\ Len(agg.result) < Len(agg.candidates)

(***************************************************************************)
(* Claims about rank_candidates (SpecRank)                                 *)
(***************************************************************************)
PoolPosition(pool, track) == CHOOSE i \in 1..Len(pool) : pool[i] = track

\* C2: for a deduplicated pool of n candidates rank_candidates returns
\* exactly min(max_results, n) recommendations, all taken from the pool and
\* with pairwise distinct identities, in order of non-increasing final
\* score, entries of equal score in their pool order.
C2_RankedTopN ==
    rank.pc = "done" =>
        LET res == rank.result
        IN  /\ Len(res) = Min(rank.max_results, Len(rank.pool))
            /\ \A k \in 1..Len(res) :
                  \E i \in 1..Len(rank.pool) : rank.pool[i] = res[k].track
            /\ \A k, l \in 1..Len(res) :
                  Identity(res[k].track) = Identity(res[l].track) => k = l
            /\ \A k, l \in 1..Len(res) :
                  k < l =>
                      /\ res[k].scores.final_score >= res[l].scores.final_score
                      /\ res[k].scores.final_score = res[l].scores.final_score
                            => PoolPosition(rank.pool, res[k].track)
                                   < PoolPosition(rank.pool, res[l].track)

\* C2 witness: a pool larger than max_results whose first candidate was
\* ranked out, and whose two returned candidates have the same final score.
C2_Witness ==
    /\ rank.pc = "done"
    /\ Len(rank.pool) > rank.max_results
    /\ Len(rank.result) = 2
    /\ rank.result[1].track # rank.pool[1]
    /\ rank.result[1].scores.final_score = rank.result[2].scores.final_score

(***************************************************************************)
(* Claims about error handling (SpecService)                               *)
(***************************************************************************)
\* C10: generate_recommendations, generate_candidates and process_feedback
\* never raise to their caller, whatever fails in a collaborator: each
\* returns a defined result -- a response (unsuccessful and without
\* recommendations unless ranking was reached), a possibly empty pool, or a
\* number, which is the default 0 when process_feedback caught a failure.
C10_NeverRaises ==
    /\ agg.outcome # "raised"
    /\ req.outcome # "raised"
    /\ rl.ret.outcome # "raised"
    /\ agg.pc = "done" =>
          /\ agg.outcome = "returned"
          /\ "agent" \in agg.failed => agg.result = <<>>
    /\ req.pc = "done" =>
          /\ req.outcome = "returned"
          /\ req.response.success \in BOOLEAN
          /\ req.response.total_count = Len(req.response.recommendations)
          /\ ~req.response.success => req.response.recommendations = <<>>
    /\ rl.feedbacks > 0 =>
          /\ rl.ret.outcome = "returned"
          /\ rl.ret.failed # {} => rl.ret.value = 0

\* C10 witness: the agent could not be built while the Redis server was
\* down, the request ended with an unsuccessful response, and a feedback
\* event whose reward could not be computed was answered with the default.
C10_Witness ==
    /\ req.pc = "done"
    /\ ~req.response.success
    /\ stats.errors > 0
    /\ "agent" \in req.failed
    /\ rl.ret.outcome = "returned"
    /\ "reward" \in rl.ret.failed

(***************************************************************************)
(* Claims about the pipeline (SpecService)                                 *)
(***************************************************************************)
\* C11: while the Redis server is down, get answers None and set answers
\* False without raising and without touching the store; a request that
\* starts then goes on to fetch, and a request that finishes then returns
\* the response it has just computed, not a cached one.
C11_CacheDownStillServes ==
    [][~redisUp =>
         LET key == RecommendationsKey(ServiceUser)
             got == RedisCacheGet(redis, redisUp, stats, key)
             put == RedisCacheSet(redis, redisUp, stats, key,
                                  PyDict(NoResponse), RECOMMENDATIONS_TTL)
         IN  /\ got.out = None /\ ~got.ok
             /\ ~put.ok /\ put.store = redis
             /\ req'.calls = req.calls + 1 =>
                   req'.pc \in {"refresh", "history"}
             /\ (req.pc = "candidates" /\ req'.pc = "done") =>
                   /\ redis' = redis
                   /\ ~req'.response.from_cache
                   /\ agg.result # <<>> =>
                         /\ req'.response.success
                         /\ req'.response.recommendations =
                               Recommendations(
                                   RankCandidates(agg.result, req.history,
                                                  req.max_results).result)
      ]_vars

\* C11 witness: the only request of the run found the cache down at the
\* check and at the set (two errors, no set, no hit) and returned a
\* successful fresh response.
C11_Witness ==
    /\ req.pc = "done"
    /\ req.calls = 1
    /\ ~redisUp
    /\ stats.errors = 2 /\ stats.sets = 0 /\ stats.hits = 0
    /\ req.response.success
    /\ ~req.response.from_cache
    /\ req.response.recommendations # <<>>

(***************************************************************************)
(* Claims about the sources of generate_candidates (SpecCandidates)        *)
(***************************************************************************)
BeforePopular(candidates) ==
    SelectSeq(candidates, LAMBDA c : c.source # "popular")

\* C12: in a run whose agent was built, a failing source stops neither the
\* sources after it (genre and discovery are invoked whenever there is a
\* token, the popular tracks whenever the stage is week_1 or the pool is
\* under half the target) nor the pool: every identity answered by a call
\* that did not fail is in the returned pool.
C12_FailureIsolated ==
    (agg.pc = "done" /\ "agent" \notin agg.failed) =>
        /\ agg.outcome = "returned"
        /\ agg.token => {"genre", "discovery"} \subseteq agg.invoked
        /\ (agg.stage = "week_1"
               \/ Len(BeforePopular(agg.candidates)) < target_count \div 2)
              => "popular" \in agg.invoked
        /\ \A i \in 1..Len(agg.returned) :
              Identity(agg.returned[i]) # "" =>
                  \E k \in 1..Len(agg.result) :
                      Identity(agg.result[k]) = Identity(agg.returned[i])

\* C12 witness: the genre source alone failed, and the pool holds a track
\* of the discovery source and a track of the popular source.
C12_Witness ==
    /\ agg.pc = "done"
    /\ agg.failed = {"genre"}
    /\ \E k \in 1..Len(agg.result) : agg.result[k].source = "discovery"
    /\ \E k \in 1..Len(agg.result) : agg.result[k].source = "popular"

\* C13: whenever generate_candidates hands a pool to generate_recommendations
\* (every pool of the model is under the floor of 200, the empty one
\* included) the request returns a successful response holding
\* min(max_results, pool size) recommendations.
C13_SmallPoolServed ==
    [][(req.pc = "candidates" /\ req'.pc = "done") =>
          /\ req'.response.success
          /\ req'.response.error = ""
          /\ req'.response.total_count
                 = Min(req.max_results, Len(agg.result))
      ]_vars

(***************************************************************************)
(* Claims about the learning engine and the routes (SpecLearner)           *)
(***************************************************************************)
\* C14: once the feedback route has acknowledged an event, the statistics
\* of the acknowledgement count that event, an insights query that follows
\* reports the episode count and the genre performance the event wrote,
\* and the scorer is handed a learned value for the song.
C14_FeedbackObserved ==
    route.acknowledged > 0 =>
        /\ route.rl_stats.training_episodes >= 1
        /\ route.pc = "insights" =>
              /\ route.insights.training_episodes >= route.acknowledged
              /\ route.insights.genre_performance =
                     route.written.genre_performance
        /\ RlScoreOf(route.song).given

\* The Q-table entry of a song's state.
EntryOf(song) == QKey(ExtractStateFeatures(song), "recommend")
\* What a Q-table holds for an entry, 0 standing for an absent one.
Held(q_table, key) == IF key \in DOMAIN q_table THEN q_table[key] ELSE 0

\* C15: a process_feedback call whose reward r is computed leaves a
\* Q-table that has the entry of the song's state and the entries it had
\* before, the former at Q + (r - Q) / 10 with Q the value held before (0
\* if absent) and the latter unchanged; looking up an absent entry gives 0.
C15_OneEntryLearns ==
    [][\A song \in LearnerSongs, f \in LearnerFeedback,
          a \in LearnerAdditional, draw \in Draws :
          (/\ rl' = AfterFeedback(rl, song, f, a, draw)
           /\ ~CalculateReward(f, a).raised)
          => /\ DOMAIN rl'.q_table = DOMAIN rl.q_table \cup {EntryOf(song)}
             /\ 10 * (rl'.q_table[EntryOf(song)]
                          - Held(rl.q_table, EntryOf(song)))
                    = CalculateReward(f, a).value
                          - Held(rl.q_table, EntryOf(song))
             /\ \A k \in DOMAIN rl.q_table \ {EntryOf(song)} :
                    rl'.q_table[k] = rl.q_table[k]
             /\ \A other \in LearnerSongs :
                    EntryOf(other) \notin DOMAIN rl'.q_table
                    => GetQValue(rl'.q_table, ExtractStateFeatures(other),
                                 "recommend") = 0
      ]_vars
\* Two likes of one song: the entry went from absent to 0.1 to 0.19, next
\* to an entry a dislike of another song wrote.
C15_Witness ==
    /\ rl.feedbacks = MaxCalls
    /\ EntryOf(Song("pop", 5)) \in DOMAIN rl.q_table
    /\ rl.q_table[EntryOf(Song("pop", 5))] = Hundredths(19)

Performance(learner, genre) ==
    IF genre \in DOMAIN learner.genre_performance
    THEN learner.genre_performance[genre] ELSE NewGenre

\* C17: every process_feedback call for a song of genre g leaves g's count
\* one higher and g's total higher by the event's reward, with the average
\* equal to total / count; and along a run of consecutive likes of g no
\* like lowers g's average and every like leaves g's bonus above 0 and at
\* most 0.2.
C17_GenreRunningAverage ==
    [][\A song \in LearnerSongs, f \in LearnerFeedback,
          a \in LearnerAdditional, draw \in Draws :
          rl' = AfterFeedback(rl, song, f, a, draw)
          => LET before == Performance(rl, song.genre)
                 after == Performance(rl', song.genre)
                 bonus == GetGenreBonus(rl'.genre_performance, song.genre)
             IN  /\ after.count = before.count + 1
                 /\ after.total_reward
                        = before.total_reward + CalculateReward(f, a).value
                 /\ after.avg_reward * after.count = after.total_reward
                 /\ rl'.run.likes >= 2 =>
                        after.avg_reward >= before.avg_reward
                 /\ rl'.run.likes >= 1 =>
                        (bonus > 0 /\ bonus <= Hundredths(20))
      ]_vars

(***************************************************************************)
(* Claims about calculate_composite_score (SpecScore)                      *)
(***************************************************************************)
\* C18: whatever the candidate, the history, the selection so far and the
\* learned value, the four component scores calculate_composite_score
\* returns lie in [0, 1] and so does the final score, with and without a
\* learned value; with an empty history the history similarity is 0.5.
C18_ScoresInUnitInterval ==
    rank.pc = "scored" =>
        LET scores == rank.scored[1].scores
        IN  /\ scores.history_similarity \in 0..1000
            /\ scores.personality_match \in 0..1000
            /\ scores.diversity_bonus \in 0..1000
            /\ scores.novelty_factor \in 0..1000
            /\ scores.final_score \in 0..10000
            /\ rank.history = <<>> => scores.history_similarity = 500
\* A learned value far below 0 on a weak candidate: the clamp gives 0.
C18_Witness ==
    /\ rank.pc = "scored"
    /\ rank.scored[1].scores.rl_adjusted
    /\ rank.scored[1].scores.final_score = 0
    /\ rank.scored[1].scores.diversity_bonus = 1000
    /\ rank.scored[1].scores.personality_match = 0
    /\ RawPersonalityMatch(rank.scored[1].track) < 0

\* Values np.random.uniform(-0.1, 0.1) can answer.
ExplorationBonuses == {Hundredths(-10), Hundredths(-5), Hundredths(5)}
\* A learned value as the scorer takes it, in thousandths.
Thousandths(v) == (v * 10) \div Hundredths(1)

\* C19: for every state the learning engine reaches and every song, with
\* and without exploration, the adjustment the scorer derives from
\* Q-value + genre bonus (+ jitter) is between -0.05 and 0.05.
C19_AdjustmentBounded ==
    \A song \in LearnerSongs, explore \in BOOLEAN,
       exploration_bonus \in ExplorationBonuses :
       LET rl_score == GetRecommendationScore(rl, song, explore,
                                              exploration_bonus)
           rl_adjustment == RlAdjustment(RlScore(Thousandths(rl_score)))
       IN  /\ rl_adjustment >= -500
           /\ rl_adjustment <= 500

\* Identified tracks the popular source answered are in the returned pool.
PopularInPool ==
    \A i \in 1..Len(agg.returned) :
        (agg.returned[i].source = "popular"
             /\ Identity(agg.returned[i]) # "") =>
            \E k \in 1..Len(agg.result) :
                Identity(agg.result[k]) = Identity(agg.returned[i])

C21_StageByAgeAlone ==
    /\ policy.config = COLD_START_WEIGHTS
    /\ (policy.consulted > 0 /\ policy.lookup.known) =>
          LET age == policy.lookup.days
              stage == policy.answer.stage
          IN  /\ stage \in {"week_1", "week_2_4", "month_2_plus"}
              /\ stage = "week_1" <=> age <= 7
              /\ stage = "week_2_4" <=> (8 <= age /\ age <= 28)
              /\ stage = "month_2_plus" <=> age > 28
              /\ stage = GetColdStartStage(age)
              /\ policy.answer.weights = COLD_START_WEIGHTS[stage]
\* A second consultation, for an account of 28 days, after a first one.
C21_Witness ==
    /\ policy.consulted = 2
    /\ policy.lookup = [known |-> TRUE, days |-> 28]
    /\ policy.answer.stage = "week_2_4"
    /\ policy.answer.weights.personality = 6

\* C22: every response that was computed, not read from the cache, was
\* scored with the weight set of the user's stage: the personality weight
\* applied is the one the cold-start policy gives the stage, and in stage
\* week_1 it is larger than every other weight applied.
C22_StageWeightsApplied ==
    (req.pc = "done" /\ req.response.success /\ ~req.response.from_cache) =>
        LET applied == req.response.scoring_weights
            selected == req.response.cold_start_weights
        IN  /\ applied.personality_match = selected.personality
            /\ req.response.stage = "week_1" =>
                   \A k \in DOMAIN applied \ {"personality_match"} :
                       applied.personality_match > applied[k]

\* The default TTL the configuration gives the cache behind a key: the
\* recommendations tier's RECOMMENDATIONS_TTL, CacheManager's default_ttl.
TierTtl == IF use_redis THEN RECOMMENDATIONS_TTL ELSE default_ttl

\* C23: an entry stored by a set without a ttl is a miss once the default
\* TTL of its cache has elapsed since the set.
C23_DefaultTtlExpires ==
    \A k \in CacheKeys :
        (written[k].set /\ written[k].ttl = 0
            /\ now >= written[k].at + TierTtl) =>
            IF use_redis THEN ~ServerGet(redis, k).present
            ELSE ~MemoryFresh(memory[k])

\* The counter state the limiter of replica r holds for an identity: the
\* Redis key, or the identity's entry of the in-memory dict.
Tracked(r, u) ==
    IF use_redis THEN ServerGet(redis, RateKey(u)).present
    ELSE user_requests[r][u].present

\* The identity's last request to the limiter state replica r uses is a
\* full window old and none is in progress.
QuietForWindow(r, u) ==
    LET sharing == IF use_redis THEN Replicas ELSE {r}
    IN  \A o \in sharing :
            /\ check[o].pc = "idle"
            /\ check[o].user_id = u => now >= check[o].at + window_seconds

\* C24: once an identity has made no request for a full window, its counter
\* state is eventually gone (or the identity is active again).
C24_IdleCountersExpire ==
    \A r \in Replicas, u \in Identities :
        (Tracked(r, u) /\ QuietForWindow(r, u))
            ~> ~(Tracked(r, u) /\ QuietForWindow(r, u))

\* The feedback events an instance has taken through the reward and the
\* update steps: the events its genre statistics count.
RECURSIVE SumCounts(_, _)
SumCounts(genre_performance, genres) ==
    IF genres = {} THEN 0
    ELSE LET g == CHOOSE g \in genres : TRUE
         IN  genre_performance[g].count
                 + SumCounts(genre_performance, genres \ {g})
Episodes(learner) ==
    SumCounts(learner.genre_performance, DOMAIN learner.genre_performance)

\* C25: a feedback event that makes the number of episodes a multiple of
\* BatchEvery, with at least MinBatch experiences gathered at one per
\* episode, runs one batch replay and decays epsilon to
\* max(0.01, 0.995 * epsilon); any other event runs no replay and leaves
\* epsilon as it was.
C25_ReplayEveryTenth ==
    [][\A song \in LearnerSongs, f \in LearnerFeedback,
          a \in LearnerAdditional, draw \in Draws :
          (/\ rl' = AfterFeedback(rl, song, f, a, draw)
           /\ ~CalculateReward(f, a).raised)
          => /\ Episodes(rl') = Episodes(rl) + 1
             /\ IF Episodes(rl') % BatchEvery = 0 /\ Episodes(rl') >= MinBatch
                THEN /\ rl'.replays = rl.replays + 1
                     /\ rl'.epsilon = DecayEpsilon(rl.epsilon)
                ELSE /\ rl'.replays = rl.replays
                     /\ rl'.epsilon = rl.epsilon
      ]_vars

\* C26: a process_feedback call whose reward is computed ends with the
\* event's experience appended as the newest of the replay buffer, the
\* oldest dropped if the buffer was full, and with the episode counter
\* one higher; the buffer never holds more than BufferCapacity experiences.
C26_OneExperiencePerEvent ==
    [][\A song \in LearnerSongs, f \in LearnerFeedback,
          a \in LearnerAdditional, draw \in Draws :
          (/\ rl' = AfterFeedback(rl, song, f, a, draw)
           /\ ~CalculateReward(f, a).raised)
          => LET before == rl.experience_buffer
                 after == rl'.experience_buffer
                 kept == IF Len(before) >= BufferCapacity THEN Tail(before)
                         ELSE before
             IN  /\ Len(after) = Len(kept) + 1
                 /\ SubSeq(after, 1, Len(kept)) = kept
                 /\ after[Len(after)].state = ExtractStateFeatures(song)
                 /\ after[Len(after)].reward = CalculateReward(f, a).value
                 /\ Len(after) <= BufferCapacity
                 /\ rl'.training_episodes = rl.training_episodes + 1
      ]_vars

\* The learning state of an instance.
LearningState(learner) ==
    [q_table |-> learner.q_table,
     genre_performance |-> learner.genre_performance,
     experience_buffer |-> learner.experience_buffer,
     total_reward |-> learner.total_reward,
     training_episodes |-> learner.training_episodes]

\* C30: a process_feedback call that ends on its error path (answering
\* 0.0 from the handler) leaves the Q-table, the genre performance, the
\* replay buffer, the total reward and the episode counter as they were;
\* any other call answers the Q-value it wrote for the song's state and
\* has counted the event.
C30_AllOrNothing ==
    [][\A song \in LearnerSongs, f \in LearnerFeedback,
          a \in LearnerAdditional, draw \in Draws :
          rl' = AfterFeedback(rl, song, f, a, draw)
          => IF rl'.ret.failed # {}
             THEN rl'.ret.value = 0 /\ LearningState(rl') = LearningState(rl)
             ELSE /\ rl'.ret.value = rl'.q_table[EntryOf(song)]
                  /\ rl'.training_episodes = rl.training_episodes + 1
                  /\ rl'.total_reward
                         = rl.total_reward + CalculateReward(f, a).value
      ]_vars

\* The tracks of the first n entries of a ranking.
ChosenBefore(result, n) == [j \in 1..n |-> result[j].track]

\* The final score of a candidate with the diversity component computed
\* against the given recommendations only.
ScoreAgainst(candidate, chosen) ==
    CalculateCompositeScore(candidate, rank.history, chosen,
                            RlScoreOf(candidate)).final_score

\* C27: every returned recommendation carries the score computed against
\* the recommendations returned above it, and no candidate not yet chosen
\* scores higher against them; the top-ranked one carries diversity 1.0.
C27_GreedySelection ==
    (rank.pc = "done" /\ rank.result # <<>>) =>
        /\ \A i \in 1..Len(rank.result) :
              LET chosen == ChosenBefore(rank.result, i - 1)
                  remaining ==
                      {c \in {rank.pool[k] : k \in 1..Len(rank.pool)} :
                          \A j \in 1..(i - 1) : chosen[j] # c}
              IN  /\ rank.result[i].scores.final_score
                         = ScoreAgainst(rank.result[i].track, chosen)
                  /\ \A c \in remaining :
                         ScoreAgainst(c, chosen)
                             <= rank.result[i].scores.final_score
        /\ rank.result[1].scores.diversity_bonus = 1000

\* The exponential term of the wait after a quota-exceeded attempt k:
\* (2 ** k) * 1.0 seconds.
ExponentialTerm(k) == 2 * BackoffTicks * Pow2(k)

\* C28: while rate_limited_call waits after a failed attempt k, the wait
\* asked for is, after a quota-exceeded failure, the exponential term of k
\* plus a jitter (a random amount, not zero and no more than the term), and
\* after any other failure the linear 0.5 * (k + 1) s, less than the wait a
\* quota-exceeded failure of the same attempt gets.
C28_BackoffByKind ==
    \A t \in Tasks :
        task[t].pc = "backoff" =>
            LET k == task[t].attempt
                jitter == task[t].lastWait - ExponentialTerm(k)
            IN  IF task[t].lastKind = "quota"
                THEN jitter \in 1..ExponentialTerm(k)
                ELSE /\ task[t].lastWait = BackoffTicks * (k + 1)
                     /\ task[t].lastWait < QuotaWait(k)

\* C29: an acquire_for_endpoint call that returns not granted has taken no
\* token, neither from the global bucket nor from an endpoint bucket.
C29_DeniedTakesNothing ==
    \A t \in Tasks :
        (task[t].mode = "acquire" /\ task[t].result = "denied") =>
            task[t].taken = {}

=============================================================================
